---- MODULE Spec2Model ----
(***************************************************************************)
(* A model of the projectCSV tool: the ClientMatterCode validator          *)
(* (validators.py), the transformation pipeline and its column mappings    *)
(* (transformer.py) and the transform command (cli.py).                    *)
(*                                                                         *)
(* Text is a sequence of one-character strings, so that trimming, pattern  *)
(* matching and case conversion are computed character by character.  A    *)
(* cell is a record: either absent (None / NaN / pd.NA) or a text.         *)
(***************************************************************************)
EXTENDS FiniteSets, Integers, Sequences, TLC

VARIABLES
    pc,        \* position of the running operation
    value,     \* validate_client_matter_code: the argument
    verdict,   \* validate_client_matter_code: the returned (is_valid, error_message)
    source_df, \* transform_dataframe: the table passed in
    run_config, \* transform_dataframe: the TransformConfig passed in
    result,    \* transform_dataframe: what it returned or raised
    stdout,    \* the lines written with click.echo
    argv,      \* transform command: the options given on the command line
    source_file, \* transform command: what is stored at the source path
    fs,        \* transform command: what is stored at the output path
    stderr,    \* the lines written with click.echo(..., err=True)
    exit_status, \* <<>> while the command runs, then <<its exit status>>
    read_calls,  \* number of calls of read_file so far
    write_calls, \* number of calls of write_output so far
    call_args,   \* a function called on its own: the arguments of the call
    call_result  \* a function called on its own: what it returned or raised

callVars == <<value, verdict, source_df, run_config, result, stdout, call_args, call_result>>

cliVars == <<argv, source_file, fs, stderr, exit_status, read_calls, write_calls>>

vars == <<pc, callVars, cliVars>>

(***************************************************************************)
(* Characters and text                                                     *)
(***************************************************************************)
DigitChars == {"0", "1", "2", "3", "4", "5", "6", "7", "8", "9"}

\* the characters str.strip() removes that occur in the modelled inputs
WhitespaceChars == {" ", "\t", "\n"}

\* s[from..to] as a sequence (empty when from > to)
Slice(s, from, to) ==
    IF to < from THEN <<>> ELSE [i \in 1..(to - from + 1) |-> s[from + i - 1]]

\* index of the first non-whitespace character at or after i (Len(s)+1 if none)
RECURSIVE SkipLeft(_, _)
SkipLeft(s, i) ==
    IF i > Len(s) THEN i
    ELSE IF s[i] \in WhitespaceChars THEN SkipLeft(s, i + 1) ELSE i

\* index of the last non-whitespace character at or before i (0 if none)
RECURSIVE SkipRight(_, _)
SkipRight(s, i) ==
    IF i < 1 THEN 0
    ELSE IF s[i] \in WhitespaceChars THEN SkipRight(s, i - 1) ELSE i

\* str.strip(): only the left end (the bug of using lstrip)
StripLeftOnly(s) == Slice(s, SkipLeft(s, 1), Len(s))

\* str.strip()
Strip(s) == Slice(s, SkipLeft(s, 1), SkipRight(s, Len(s)))

(***************************************************************************)
(* Cells                                                                   *)
(***************************************************************************)
NA == [isna |-> TRUE, text |-> <<>>]

Text(s) == [isna |-> FALSE, text |-> s]

(***************************************************************************)
(* validators.py: the three compiled patterns.  A pattern of the shape     *)
(* ^\d{a,b}\.\d{c,d}$ is given by the two quantifiers; "more" stands for   *)
(* an open upper end (\d+).                                                *)
(***************************************************************************)
Exactly(n) == [lo |-> n, hi |-> n, more |-> FALSE]

Between(a, b) == [lo |-> a, hi |-> b, more |-> FALSE]

OneOrMore == [lo |-> 1, hi |-> 1, more |-> TRUE]

pattern == [first |-> Exactly(5), second |-> Exactly(5)]

sec_part_too_short == [first |-> OneOrMore, second |-> Between(1, 4)]

\* the first group bounded one digit too low
first_part_too_short_Upto3 == [first |-> Between(1, 3), second |-> OneOrMore]

first_part_too_short == [first |-> Between(1, 4), second |-> OneOrMore]

InQuant(k, q) == k >= q.lo /\ (q.more \/ k <= q.hi)

AllDigits(s, from, to) == \A i \in from..to : s[i] \in DigitChars

\* "$" of Python's re: the end of the text, or just before a final newline
AtEnd(s, i) == i = Len(s) + 1 \/ (i = Len(s) /\ s[i] = "\n")

\* re.match(p, s) is not None
ReMatch(p, s) ==
    \E k \in 0..Len(s), j \in 0..Len(s) :
        /\ InQuant(k, p.first)
        /\ InQuant(j, p.second)
        /\ k + 1 + j <= Len(s)
        /\ AllDigits(s, 1, k)
        /\ s[k + 1] = "."
        /\ AllDigits(s, k + 2, k + 1 + j)
        /\ AtEnd(s, k + j + 2)

(***************************************************************************)
(* validators.py: validate_client_matter_code                              *)
(***************************************************************************)
None == "None"

CodeEmpty == "Client matter code is empty"

SecondPartTruncated == "Possible truncation - second part too short"

FirstPartTruncated == "Possible truncation - first part too short"

MissingPeriod == "Invalid format - missing period"

BadFormat == "Invalid format - expected XXXXX.XXXXX"

Contains(s, c) == \E i \in 1..Len(s) : s[i] = c

\* the cascade with the two truncation checks in the opposite order
Cascade_FirstPartFirst(value_string) ==
    IF ReMatch(pattern, value_string) THEN <<TRUE, None>>
    ELSE IF ReMatch(first_part_too_short, value_string) THEN <<FALSE, FirstPartTruncated>>
    ELSE IF ReMatch(sec_part_too_short, value_string) THEN <<FALSE, SecondPartTruncated>>
    ELSE IF ~Contains(value_string, ".") THEN <<FALSE, MissingPeriod>>
    ELSE <<FALSE, BadFormat>>

\* the cascade without its missing-period branch
Cascade_NoMissingPeriod(value_string) ==
    IF ReMatch(pattern, value_string) THEN <<TRUE, None>>
    ELSE IF ReMatch(sec_part_too_short, value_string) THEN <<FALSE, SecondPartTruncated>>
    ELSE IF ReMatch(first_part_too_short, value_string) THEN <<FALSE, FirstPartTruncated>>
    ELSE <<FALSE, BadFormat>>

\* elif chain of validate_client_matter_code over the trimmed text
Cascade(value_string) ==
    IF ReMatch(pattern, value_string) THEN <<TRUE, None>>
    ELSE IF ReMatch(sec_part_too_short, value_string) THEN <<FALSE, SecondPartTruncated>>
    ELSE IF ReMatch(first_part_too_short, value_string) THEN <<FALSE, FirstPartTruncated>>
    ELSE IF ~Contains(value_string, ".") THEN <<FALSE, MissingPeriod>>
    ELSE <<FALSE, BadFormat>>

NoVerdict == <<FALSE, "not called">>

\* the emptiness test written as "not value": an empty text counts as absent
validate_client_matter_code_Falsy(v) ==
    IF v.isna \/ v.text = <<>> THEN <<FALSE, CodeEmpty>>
    ELSE Cascade(Strip(v.text))

validate_client_matter_code(v) ==
    IF v.isna THEN <<FALSE, CodeEmpty>>
    ELSE Cascade(Strip(v.text))

(***************************************************************************)
(* Tables.  A table (pandas DataFrame) is its row labels and its columns   *)
(* in order; every column has a name and one cell per row label.  Names    *)
(* are texts.  All columns hold text or absent cells (dtype object), as    *)
(* read_file delivers them (dtype=str).                                    *)
(***************************************************************************)
Table(index, columns) == [index |-> index, columns |-> columns]

Column(name, cells) == [name |-> name, cells |-> cells]

NoTable == Table(<<>>, <<>>)

\* df.empty: some axis has length 0
IsEmpty(df) == Len(df.index) = 0 \/ Len(df.columns) = 0

\* df.columns.tolist()
ColumnNames(df) == [i \in 1..Len(df.columns) |-> df.columns[i].name]

Range(f) == {f[i] : i \in DOMAIN f}

\* name in df.columns
HasColumn(df, name) == \E i \in 1..Len(df.columns) : df.columns[i].name = name

\* the positions of the columns called name
Positions(df, name) == {i \in 1..Len(df.columns) : df.columns[i].name = name}

\* df[name] is a Series only when exactly one column has that name
IsSeries(df, name) == Cardinality(Positions(df, name)) = 1

\* df[name] as a Series: the cells of the one column called name
Series(df, name) == df.columns[CHOOSE i \in Positions(df, name) : TRUE].cells

(***************************************************************************)
(* validators.py: validate_dataframe_codes                                 *)
(***************************************************************************)
ValidationError(row, v, error) == [row |-> row, value |-> v, error |-> error]

\* the loop over df[key_column].items(), rows taken from position r on
RECURSIVE ErrorsFrom(_, _, _)
ErrorsFrom(index, cells, r) ==
    IF r > Len(cells) THEN <<>>
    ELSE LET checked == validate_client_matter_code(cells[r])
         IN  (IF checked[1] THEN <<>>
              ELSE <<ValidationError(index[r] + 2, cells[r], checked[2])>>)
             \o ErrorsFrom(index, cells, r + 1)

\* the row number computed without the header row
validate_dataframe_codes_OffByOne(df, key_column) ==
    LET errors == ErrorsFrom(df.index, Series(df, key_column), 1)
    IN  [i \in 1..Len(errors) |->
            ValidationError(errors[i].row - 1, errors[i].value, errors[i].error)]

\* the reported value taken after trimming instead of as stored
validate_dataframe_codes_Stripped(df, key_column) ==
    LET errors == ErrorsFrom(df.index, Series(df, key_column), 1)
    IN  [i \in 1..Len(errors) |->
            ValidationError(errors[i].row,
                            IF errors[i].value.isna THEN errors[i].value
                            ELSE Text(Strip(errors[i].value.text)),
                            errors[i].error)]

\* called only with key_column in df.columns
validate_dataframe_codes(df, key_column) ==
    ErrorsFrom(df.index, Series(df, key_column), 1)

ColumnNotFound == "Column not found"

\* a call of validate_dataframe_codes with any column name: lines 74-75 raise
\* when the table has no such column
CallValidateDataframeCodes(df, key_column) ==
    IF ~HasColumn(df, key_column)
    THEN [raised |-> TRUE, exc |-> "ValueError", msg |-> ColumnNotFound, errors |-> <<>>]
    ELSE [raised |-> FALSE, exc |-> None, msg |-> None,
          errors |-> validate_dataframe_codes(df, key_column)]

(***************************************************************************)
(* Case conversion of a text: str.upper(), str.lower(), str.title()        *)
(***************************************************************************)
LowerLetters ==
    <<"a", "b", "c", "d", "e", "f", "g", "h", "i", "j", "k", "l", "m",
      "n", "o", "p", "q", "r", "s", "t", "u", "v", "w", "x", "y", "z">>

UpperLetters ==
    <<"A", "B", "C", "D", "E", "F", "G", "H", "I", "J", "K", "L", "M",
      "N", "O", "P", "Q", "R", "S", "T", "U", "V", "W", "X", "Y", "Z">>

IsLower(c) == \E i \in 1..Len(LowerLetters) : LowerLetters[i] = c

IsUpper(c) == \E i \in 1..Len(UpperLetters) : UpperLetters[i] = c

IsCased(c) == IsLower(c) \/ IsUpper(c)

UpperChar(c) ==
    IF IsLower(c) THEN UpperLetters[CHOOSE i \in 1..Len(LowerLetters) : LowerLetters[i] = c]
    ELSE c

LowerChar(c) ==
    IF IsUpper(c) THEN LowerLetters[CHOOSE i \in 1..Len(UpperLetters) : UpperLetters[i] = c]
    ELSE c

str_upper(s) == [i \in 1..Len(s) |-> UpperChar(s[i])]

str_lower(s) == [i \in 1..Len(s) |-> LowerChar(s[i])]

\* every letter changed to the other case (swapcase)
str_title_Swapcase(s) ==
    [i \in 1..Len(s) |-> IF IsLower(s[i]) THEN UpperChar(s[i]) ELSE LowerChar(s[i])]

\* a letter is capitalized when the character before it is not a letter, and
\* lowercased when it is
str_title(s) ==
    [i \in 1..Len(s) |->
        IF i > 1 /\ IsCased(s[i - 1]) THEN LowerChar(s[i]) ELSE UpperChar(s[i])]

(***************************************************************************)
(* transformer.py: ColumnMapping and TransformConfig as constructed        *)
(***************************************************************************)
ColumnMapping(source_name, dest_name) ==
    [source_name |-> source_name, dest_name |-> dest_name]

TransformConfig(column_mappings, case_transform, duplicate_handling, key_column) ==
    [column_mappings |-> column_mappings, case_transform |-> case_transform,
     duplicate_handling |-> duplicate_handling, key_column |-> key_column]

(***************************************************************************)
(* transformer.py: ColumnMapping.__init__ and parse_mappings               *)
(***************************************************************************)
EmptyMapping == "Column mapping cannot be empty"

MalformedMapping == "Invalid column mapping syntax"

EmptySourceName == "Source column name cannot be empty"

EmptyDestName == "Destination column name cannot be empty"

\* str.split(sep): the parts of s from position i on, cur being the part open
RECURSIVE SplitFrom(_, _, _, _)
SplitFrom(s, sep, i, cur) ==
    IF i > Len(s) THEN <<cur>>
    ELSE IF s[i] = sep THEN <<cur>> \o SplitFrom(s, sep, i + 1, <<>>)
    ELSE SplitFrom(s, sep, i + 1, Append(cur, s[i]))

Split(s, sep) == SplitFrom(s, sep, 1, <<>>)

MappingError(msg) ==
    [raised |-> TRUE, exc |-> "ValueError", msg |-> msg, mapping |-> ColumnMapping(<<>>, <<>>)]

MappingOk(source_name, dest_name) ==
    [raised |-> FALSE, exc |-> None, msg |-> None,
     mapping |-> ColumnMapping(source_name, dest_name)]

\* the two parts stored as split, without trimming them
ColumnMapping_init_PartsUntrimmed(mapping_string) ==
    LET stripped == Strip(mapping_string)
        parts == Split(stripped, ":")
    IN  IF stripped = <<>> THEN MappingError(EmptyMapping)
        ELSE IF Contains(stripped, ":")
        THEN IF Len(parts) # 2 THEN MappingError(MalformedMapping)
             ELSE IF Strip(parts[1]) = <<>> THEN MappingError(EmptySourceName)
             ELSE IF Strip(parts[2]) = <<>> THEN MappingError(EmptyDestName)
             ELSE MappingOk(parts[1], parts[2])
        ELSE MappingOk(stripped, stripped)

\* the destination checked before the source
ColumnMapping_init_DestFirst(mapping_string) ==
    LET stripped == Strip(mapping_string)
        parts == Split(stripped, ":")
    IN  IF stripped = <<>> THEN MappingError(EmptyMapping)
        ELSE IF Contains(stripped, ":")
        THEN IF Len(parts) # 2 THEN MappingError(MalformedMapping)
             ELSE IF Strip(parts[2]) = <<>> THEN MappingError(EmptyDestName)
             ELSE IF Strip(parts[1]) = <<>> THEN MappingError(EmptySourceName)
             ELSE MappingOk(Strip(parts[1]), Strip(parts[2]))
        ELSE MappingOk(stripped, stripped)

\* ColumnMapping(mapping_string)
ColumnMapping_init(mapping_string) ==
    LET stripped == Strip(mapping_string)
        parts == Split(stripped, ":")
    IN  IF stripped = <<>> THEN MappingError(EmptyMapping)
        ELSE IF Contains(stripped, ":")
        THEN IF Len(parts) # 2 THEN MappingError(MalformedMapping)
             ELSE IF Strip(parts[1]) = <<>> THEN MappingError(EmptySourceName)
             ELSE IF Strip(parts[2]) = <<>> THEN MappingError(EmptyDestName)
             ELSE MappingOk(Strip(parts[1]), Strip(parts[2]))
        ELSE MappingOk(stripped, stripped)

\* a directive that does not parse is skipped and the others are returned
parse_mappings_SkipInvalid(mapping_strings) ==
    LET parsed == [i \in 1..Len(mapping_strings) |-> ColumnMapping_init(mapping_strings[i])]
        valid == SelectSeq(parsed, LAMBDA m : ~m.raised)
    IN  [raised |-> FALSE, exc |-> None, msg |-> None,
         mappings |-> [i \in 1..Len(valid) |-> valid[i].mapping]]

\* [ColumnMapping(s) for s in mapping_strings]: the first failure ends the
\* comprehension and nothing is returned
parse_mappings(mapping_strings) ==
    LET parsed == [i \in 1..Len(mapping_strings) |-> ColumnMapping_init(mapping_strings[i])]
        failed == {i \in 1..Len(parsed) : parsed[i].raised}
    IN  IF failed # {}
        THEN [raised |-> TRUE, exc |-> "ValueError",
              msg |-> parsed[CHOOSE i \in failed : \A j \in failed : i <= j].msg,
              mappings |-> <<>>]
        ELSE [raised |-> FALSE, exc |-> None, msg |-> None,
              mappings |-> [i \in 1..Len(parsed) |-> parsed[i].mapping]]

(***************************************************************************)
(* transformer.py: transform_dataframe, stage by stage                     *)
(***************************************************************************)
EmptyInput == "Cannot transform an empty DataFrame"

NoMappings == "No column mappings specified"

MissingColumn == "Column not found in source file"

EmptyAfterProjection == "No data remaining after column selection"

ValidationFailed == "Validation errors found"

DuplicateKeys == "Duplicate values found in key column"

AllRowsDuplicated == "All rows were duplicates - no data remaining"

NoDtype == "'DataFrame' object has no attribute 'dtype'"

Raised(exc, msg, detail) ==
    [raised |-> TRUE, exc |-> exc, msg |-> msg, detail |-> detail,
     table |-> NoTable, echo |-> <<>>]

Returned(table, echo) ==
    [raised |-> FALSE, exc |-> None, msg |-> None, detail |-> <<>>,
     table |-> table, echo |-> echo]

\* [m.source_name for m in config.column_mappings]
SourceCols(mappings) == [i \in 1..Len(mappings) |-> mappings[i].source_name]

\* df[source_cols]: the named columns in the order of the list (the source table
\* has one column per name)
Select(df, source_cols) ==
    Table(df.index,
          [i \in 1..Len(source_cols) |->
              df.columns[CHOOSE k \in Positions(df, source_cols[i]) : TRUE]])

\* the dict {m.source_name: m.dest_name ...}: a later entry replaces an earlier
\* one with the same source
RenameMap(mappings) ==
    [n \in Range(SourceCols(mappings)) |->
        LET last == CHOOSE i \in 1..Len(mappings) :
                        /\ mappings[i].source_name = n
                        /\ \A j \in (i + 1)..Len(mappings) : mappings[j].source_name # n
        IN  mappings[last].dest_name]

\* df.rename(columns=rename_map)
Rename(df, rename_map) ==
    Table(df.index,
          [i \in 1..Len(df.columns) |->
              Column(IF df.columns[i].name \in DOMAIN rename_map
                     THEN rename_map[df.columns[i].name]
                     ELSE df.columns[i].name,
                     df.columns[i].cells)])

\* the trim stage leaving every cell as stored
StripCell_Keep(cell) == cell

\* Series.str.strip() leaves an absent cell absent
StripCell(cell) == IF cell.isna THEN cell ELSE Text(Strip(cell.text))

\* null normalization left out: an absent cell stays absent
FillCell_Skip(cell) == cell

\* fillna("")
FillCell(cell) == IF cell.isna THEN Text(<<>>) ELSE cell

UpperCell(cell) == Text(str_upper(cell.text))

LowerCell(cell) == Text(str_lower(cell.text))

TitleCell(cell) == Text(str_title(cell.text))

\* one Series.str method, or fillna, applied to a cell
CellOp(op, cell) ==
    CASE op = "strip" -> StripCell(cell)
      [] op = "fillna" -> FillCell(cell)
      [] op = "upper" -> UpperCell(cell)
      [] op = "lower" -> LowerCell(cell)
      [] op = "title" -> TitleCell(cell)

\* the loop "for col in df.columns": the same operation on every cell of every
\* column (all columns have dtype object)
MapCells(df, op) ==
    Table(df.index,
          [i \in 1..Len(df.columns) |->
              Column(df.columns[i].name,
                     [r \in 1..Len(df.columns[i].cells) |-> CellOp(op, df.columns[i].cells[r])])])

\* the case transformation of every column of a table without absent cells
CaseTransform(df, case_transform) ==
    IF case_transform = "upper" THEN MapCells(df, "upper")
    ELSE IF case_transform = "lower" THEN MapCells(df, "lower")
    ELSE IF case_transform = "proper" THEN MapCells(df, "title")
    ELSE df

\* Series.duplicated(): a cell equal to a cell of an earlier row
Duplicated(cells) == [r \in 1..Len(cells) |-> \E q \in 1..(r - 1) : cells[q] = cells[r]]

\* the rows, in order, at which the mask has the wanted value
RECURSIVE RowsWhere(_, _, _)
RowsWhere(mask, wanted, r) ==
    IF r > Len(mask) THEN <<>>
    ELSE (IF mask[r] = wanted THEN <<r>> ELSE <<>>) \o RowsWhere(mask, wanted, r + 1)

\* the table restricted to the given rows; the rows keep their labels
TakeRows(df, rows) ==
    Table([k \in 1..Len(rows) |-> df.index[rows[k]]],
          [i \in 1..Len(df.columns) |->
              Column(df.columns[i].name,
                     [k \in 1..Len(rows) |-> df.columns[i].cells[rows[k]]])])

\* every row of a repeated key dropped, the first occurrence too (keep=False)
DropDuplicates_KeepNone(df, key_column) ==
    LET cells == Series(df, key_column)
        repeated == [r \in 1..Len(cells) |->
                        \E q \in 1..Len(cells) : q # r /\ cells[q] = cells[r]]
    IN  TakeRows(df, RowsWhere(repeated, FALSE, 1))

\* drop_duplicates(subset=key_column, keep="first")
DropDuplicates(df, key_column) ==
    TakeRows(df, RowsWhere(Duplicated(Series(df, key_column)), FALSE, 1))

\* the failure of duplicate_handling = "error": the values of the flagged rows
DuplicateError(cells, dup_rows) ==
    Raised("ValueError", DuplicateKeys, [k \in 1..Len(dup_rows) |-> cells[dup_rows[k]].text])

\* keep-first: the rows left, the count echoed, and the emptiness check
KeepFirst(df, kept) ==
    IF IsEmpty(kept)
    THEN Raised("ValueError", AllRowsDuplicated, <<>>)
    ELSE Returned(kept, <<[removed |-> Len(df.index) - Len(kept.index)]>>)

\* the rows of the first occurrence of each distinct value, in order
RECURSIVE FirstOfEach(_, _)
FirstOfEach(cells, rows) ==
    IF rows = <<>> THEN <<>>
    ELSE <<rows[1]>>
         \o FirstOfEach(cells, SelectSeq(Tail(rows), LAMBDA r : cells[r] # cells[rows[1]]))

\* "handle duplicates" listing each duplicated value once (unique())
HandleDuplicates_Distinct(df, config) ==
    IF ~HasColumn(df, config.key_column) THEN Returned(df, <<>>)
    ELSE LET cells == Series(df, config.key_column)
             dup_rows == RowsWhere(Duplicated(cells), TRUE, 1)
         IN  IF dup_rows = <<>> THEN Returned(df, <<>>)
             ELSE IF config.duplicate_handling = "error"
                  THEN DuplicateError(cells, FirstOfEach(cells, dup_rows))
             ELSE IF config.duplicate_handling = "keep-first"
                  THEN KeepFirst(df, DropDuplicates(df, config.key_column))
             ELSE Returned(df, <<>>)

\* "handle duplicates" keeping the last occurrence of a value (keep="last")
HandleDuplicates_KeepLast(df, config) ==
    IF ~HasColumn(df, config.key_column) THEN Returned(df, <<>>)
    ELSE LET cells == Series(df, config.key_column)
             dup_rows == RowsWhere(Duplicated(cells), TRUE, 1)
             later == [r \in 1..Len(cells) |-> \E q \in (r + 1)..Len(cells) : cells[q] = cells[r]]
         IN  IF dup_rows = <<>> THEN Returned(df, <<>>)
             ELSE IF config.duplicate_handling = "error"
                  THEN DuplicateError(cells, dup_rows)
             ELSE IF config.duplicate_handling = "keep-first"
                  THEN KeepFirst(df, TakeRows(df, RowsWhere(later, FALSE, 1)))
             ELSE Returned(df, <<>>)

\* "handle duplicates": lines 222-236
HandleDuplicates(df, config) ==
    IF ~HasColumn(df, config.key_column) THEN Returned(df, <<>>)
    ELSE LET cells == Series(df, config.key_column)
             dup_rows == RowsWhere(Duplicated(cells), TRUE, 1)
         IN  IF dup_rows = <<>> THEN Returned(df, <<>>)
             ELSE IF config.duplicate_handling = "error"
                  THEN DuplicateError(cells, dup_rows)
             ELSE IF config.duplicate_handling = "keep-first"
                  THEN KeepFirst(df, DropDuplicates(df, config.key_column))
             ELSE Returned(df, <<>>)

\* the key looked up under its source name when it was renamed away
KeyName_BeforeRename(df, config) ==
    IF ~HasColumn(df, config.key_column)
       /\ config.key_column \in Range(SourceCols(config.column_mappings))
    THEN RenameMap(config.column_mappings)[config.key_column]
    ELSE config.key_column

\* the column name the key stages look up in the projected table
KeyName(df, config) == config.key_column

\* key validation stopping at the first invalid cell
ValidateKey_FirstErrorOnly(df, config) ==
    LET errors == IF HasColumn(df, config.key_column)
                  THEN validate_dataframe_codes(df, config.key_column)
                  ELSE <<>>
    IN  IF errors # <<>>
        THEN Raised("ValueError", ValidationFailed, <<errors[1]>>)
        ELSE HandleDuplicates(df, config)

\* the duplicate stage alone, the key cells taken as they are
ValidateKey_SkipValidation(df, config) == HandleDuplicates(df, config)

\* the duplicate stage run ahead of key validation
ValidateKey_DuplicatesFirst(df, config) ==
    LET handled == HandleDuplicates(df, config)
        errors == IF HasColumn(handled.table, config.key_column)
                  THEN validate_dataframe_codes(handled.table, config.key_column)
                  ELSE <<>>
    IN  IF handled.raised THEN handled
        ELSE IF errors # <<>>
             THEN Raised("ValueError", ValidationFailed, errors)
             ELSE handled

\* "validate key column": lines 210-219, then the duplicate stage
ValidateKey(df, config) ==
    LET key_column == KeyName(df, config)
        errors == IF HasColumn(df, key_column)
                  THEN validate_dataframe_codes(df, key_column)
                  ELSE <<>>
    IN  IF errors # <<>>
        THEN Raised("ValueError", ValidationFailed, errors)
        ELSE HandleDuplicates(df, config)

\* lines 188-208: trim, normalize nulls, convert case.  df[col] of a repeated
\* column name is a DataFrame, which has no dtype.
Clean(df, config) ==
    IF \E i \in 1..Len(df.columns) : ~IsSeries(df, df.columns[i].name)
    THEN Raised("AttributeError", NoDtype, <<>>)
    ELSE Returned(CaseTransform(MapCells(MapCells(df, "strip"), "fillna"),
                                config.case_transform), <<>>)

\* the selection as a view of the caller's table: later assignments to its
\* columns write through
WorkingCopy_View(df, source_cols) ==
    [table |-> Select(df, source_cols), shared |-> TRUE]

\* df[source_cols].copy(): a new table, sharing nothing with the caller's
WorkingCopy(df, source_cols) ==
    [table |-> Select(df, source_cols), shared |-> FALSE]

\* the missing-column check reporting the last absent source instead of
\* stopping at the first
Project_LastAbsent(df, config) ==
    LET source_cols == SourceCols(config.column_mappings)
        absent == {i \in 1..Len(source_cols) : ~HasColumn(df, source_cols[i])}
    IN  IF absent # {}
        THEN Raised("ValueError", MissingColumn,
                    <<source_cols[CHOOSE i \in absent : \A j \in absent : i >= j],
                      ColumnNames(df)>>)
        ELSE LET projected == Rename(WorkingCopy(df, source_cols).table,
                                     RenameMap(config.column_mappings))
             IN  IF IsEmpty(projected)
                 THEN Raised("ValueError", EmptyAfterProjection, <<>>)
                 ELSE Returned(projected, <<>>)

\* lines 171-186: select and rename
Project(df, config) ==
    LET source_cols == SourceCols(config.column_mappings)
        absent == {i \in 1..Len(source_cols) : ~HasColumn(df, source_cols[i])}
    IN  IF absent # {}
        THEN Raised("ValueError", MissingColumn,
                    <<source_cols[CHOOSE i \in absent : \A j \in absent : i <= j],
                      ColumnNames(df)>>)
        ELSE LET projected == Rename(WorkingCopy(df, source_cols).table,
                                     RenameMap(config.column_mappings))
             IN  IF IsEmpty(projected)
                 THEN Raised("ValueError", EmptyAfterProjection, <<>>)
                 ELSE Returned(projected, <<>>)

\* the key validated as projected, before the cleaning stages
transform_dataframe_ValidateAsStored(df, config) ==
    IF IsEmpty(df) THEN Raised("ValueError", EmptyInput, <<>>)
    ELSE IF config.column_mappings = <<>> THEN Raised("ValueError", NoMappings, <<>>)
    ELSE LET projected == Project(df, config)
         IN  IF projected.raised THEN projected
             ELSE LET cleaned == Clean(projected.table, config)
                  IN  IF cleaned.raised THEN cleaned
                      ELSE IF ValidateKey(projected.table, config).msg = ValidationFailed
                           THEN ValidateKey(projected.table, config)
                           ELSE ValidateKey(cleaned.table, config)

transform_dataframe(df, config) ==
    IF IsEmpty(df) THEN Raised("ValueError", EmptyInput, <<>>)
    ELSE IF config.column_mappings = <<>> THEN Raised("ValueError", NoMappings, <<>>)
    ELSE LET projected == Project(df, config)
         IN  IF projected.raised THEN projected
             ELSE LET cleaned == Clean(projected.table, config)
                  IN  IF cleaned.raised THEN cleaned
                      ELSE ValidateKey(cleaned.table, config)

\* the caller's table after transform_dataframe returned or raised: nothing is
\* assigned before line 180, and the assignments of lines 188-208 go to the
\* working table, reaching the caller's columns only if the two are shared
InputAfterTransform(df, config) ==
    LET source_cols == SourceCols(config.column_mappings)
    IN  IF \/ IsEmpty(df)
           \/ config.column_mappings = <<>>
           \/ \E i \in 1..Len(source_cols) : ~HasColumn(df, source_cols[i])
        THEN df
        ELSE IF ~WorkingCopy(df, source_cols).shared THEN df
        ELSE Table(df.index,
                   [i \in 1..Len(df.columns) |->
                       IF df.columns[i].name \in Range(source_cols)
                       THEN Column(df.columns[i].name,
                                   [r \in 1..Len(df.columns[i].cells) |->
                                       StripCell(df.columns[i].cells[r])])
                       ELSE df.columns[i]])

(***************************************************************************)
(* profiler.py: profile_dataframe.  An optional value (None or a value) is *)
(* the empty sequence or the sequence of that one value.                   *)
(***************************************************************************)
Absent == <<>>

Some(x) == <<x>>

\* the number of rows at which the mask is TRUE
CountTrue(mask) == Cardinality({r \in 1..Len(mask) : mask[r]})

\* Series.nunique(): the distinct values, absent cells not counted
NUnique(cells) == Cardinality({cells[r] : r \in {q \in 1..Len(cells) : ~cells[q].isna}})

\* Series.isnull().sum()
MissingCount(cells) == CountTrue([r \in 1..Len(cells) |-> cells[r].isna])

\* one entry of columns_stats (lines 41-48)
ColumnStats(column) ==
    [name |-> column.name, type |-> "object",
     unique_values |-> NUnique(column.cells), missing_values |-> MissingCount(column.cells)]

\* Series.duplicated(keep=False): a cell equal to a cell of another row
DuplicatedKeepFalse(cells) ==
    [r \in 1..Len(cells) |-> \E q \in 1..Len(cells) : q # r /\ cells[q] = cells[r]]

\* the count taken from the keep=False mask: every occurrence counted
DuplicateCount_AllOccurrences(cells) == CountTrue(DuplicatedKeepFalse(cells))

\* df[key_column].duplicated().sum()
DuplicateCount(cells) == CountTrue(Duplicated(cells))

\* df[duplicated_mask][key_column].unique().tolist(): the recurring values, each
\* once, in the order of their first rows
DuplicateValues(cells) ==
    LET rows == FirstOfEach(cells, RowsWhere(DuplicatedKeepFalse(cells), TRUE, 1))
    IN  [k \in 1..Len(rows) |-> cells[rows[k]]]

\* lines 51-62
DuplicateInfo(df, key_column) ==
    IF key_column = Absent \/ ~HasColumn(df, key_column[1]) THEN Absent
    ELSE LET cells == Series(df, key_column[1])
         IN  IF DuplicateCount(cells) > 0
             THEN Some([count |-> DuplicateCount(cells), column |-> key_column[1],
                        values |-> DuplicateValues(cells)])
             ELSE Absent

KeyNotFound == "Column not found in DataFrame"

\* line 64: the lines written to stderr
ProfileDiagnostics(df, key_column) ==
    IF key_column # Absent /\ ~HasColumn(df, key_column[1])
    THEN <<<<KeyNotFound, key_column[1]>>>>
    ELSE <<>>

\* validation_errors an empty list, not None, when the key column is absent
ProfileValidationErrors_EmptyList(df, key_column) ==
    IF key_column # Absent /\ HasColumn(df, key_column[1])
    THEN Some(validate_dataframe_codes(df, key_column[1]))
    ELSE Some(<<>>)

\* lines 66-68
ProfileValidationErrors(df, key_column) ==
    IF key_column # Absent /\ HasColumn(df, key_column[1])
    THEN Some(validate_dataframe_codes(df, key_column[1]))
    ELSE Absent

\* the returned dictionary and what was written to stderr
profile_dataframe(df, key_column) ==
    [report |->
        [total_rows |-> Len(df.index),
         total_columns |-> Len(df.columns),
         columns_stats |-> [i \in 1..Len(df.columns) |-> ColumnStats(df.columns[i])],
         duplicate_info |-> DuplicateInfo(df, key_column),
         validation_errors |-> ProfileValidationErrors(df, key_column)],
     err |-> ProfileDiagnostics(df, key_column)]

\* the caller's table after profile_dataframe returned: the function only reads
\* df (len, columns, dtype, nunique, isnull, duplicated, indexing by a mask)
InputAfterProfile(df, key_column) == df

(***************************************************************************)
(* reader.py: read_file, by what the source path holds                     *)
(***************************************************************************)
StoredTable(t) == [kind |-> "table", table |-> t]

Unsupported == [kind |-> "unsupported", table |-> NoTable]

Undecodable == [kind |-> "undecodable", table |-> NoTable]

UnsupportedFormat == "Unsupported file format"

FailedToRead == "Failed to read CSV file"

read_file(stored) ==
    IF stored.kind = "unsupported" THEN Raised("ValueError", UnsupportedFormat, <<>>)
    ELSE IF stored.kind = "undecodable" THEN Raised("ValueError", FailedToRead, <<>>)
    ELSE Returned(stored.table, <<>>)

(***************************************************************************)
(* transformer.py: write_output.  The output path is modelled by whether   *)
(* its parent directory exists, the file stored there (<<>> when there is  *)
(* none) and whether the location can be written.                          *)
(***************************************************************************)
EmptyOutput == "Cannot write an empty DataFrame to file"

PermissionDenied == "Permission denied writing"

\* to_csv(index=False): the header, then one line of fields per row
CsvLines(df) ==
    [header |-> ColumnNames(df),
     rows |-> [r \in 1..Len(df.index) |->
                  [i \in 1..Len(df.columns) |-> df.columns[i].cells[r].text]]]

WriteResult(exc, msg, after) == [raised |-> exc # None, exc |-> exc, msg |-> msg, fs |-> after]

\* the parent directory created before the emptiness check
write_output_MkdirFirst(df, out) ==
    IF IsEmpty(df) THEN WriteResult("ValueError", EmptyOutput, [out EXCEPT !.dir = TRUE])
    ELSE IF ~out.writable THEN WriteResult("PermissionError", PermissionDenied, out)
    ELSE WriteResult(None, None, [dir |-> TRUE, file |-> <<CsvLines(df)>>, writable |-> TRUE])

write_output(df, out) ==
    IF IsEmpty(df) THEN WriteResult("ValueError", EmptyOutput, out)
    ELSE IF ~out.writable THEN WriteResult("PermissionError", PermissionDenied, out)
    ELSE WriteResult(None, None, [dir |-> TRUE, file |-> <<CsvLines(df)>>, writable |-> TRUE])

(***************************************************************************)
(* cli.py: the transform command, one action per statement of its try      *)
(* block.  An exception raised by a statement is caught by one of the two  *)
(* handlers, which print it and exit with status 1.                        *)
(***************************************************************************)
\* where the command goes after a statement that continues at "next"
NextStep_IgnoreFailure(raised, next) == next

\* a failure of the mapping parser reported but not ending the command
NextStep_ReadAfterParseFailure(raised, next) ==
    IF raised /\ next # "cli_read" THEN "exited" ELSE next

NextStep(raised, next) == IF raised THEN "exited" ELSE next

\* the line the handlers print for an exception
Caught(exc, msg) == <<IF exc = "ValueError" THEN "Validation Error" ELSE "Error", msg>>

CliParseMappings ==
    /\ pc = "cli_parse"
    /\ LET parsed == parse_mappings(argv.columns)
       IN  /\ pc' = NextStep(parsed.raised, "cli_read")
           /\ IF parsed.raised
              THEN /\ stderr' = Append(stderr, Caught(parsed.exc, parsed.msg))
                   /\ exit_status' = <<1>>
                   /\ UNCHANGED run_config
              ELSE /\ run_config' = TransformConfig(parsed.mappings, argv.case,
                                                    argv.duplicates, argv.key)
                   /\ UNCHANGED <<stderr, exit_status>>
    /\ UNCHANGED <<value, verdict, source_df, result, stdout, call_args, call_result>>
    /\ UNCHANGED <<argv, source_file, fs, read_calls, write_calls>>

CliReadFile ==
    /\ pc = "cli_read"
    /\ read_calls' = read_calls + 1
    /\ LET read == read_file(source_file)
       IN  /\ pc' = NextStep(read.raised, "cli_empty")
           /\ IF read.raised
              THEN /\ stderr' = Append(stderr, Caught(read.exc, read.msg))
                   /\ exit_status' = <<1>>
                   /\ UNCHANGED source_df
              ELSE /\ source_df' = read.table
                   /\ UNCHANGED <<stderr, exit_status>>
    /\ UNCHANGED <<value, verdict, run_config, result, stdout, call_args, call_result>>
    /\ UNCHANGED <<argv, source_file, fs, write_calls>>

NoDataRows == "Input file contains no data rows"

CliCheckEmpty ==
    /\ pc = "cli_empty"
    /\ pc' = NextStep(IsEmpty(source_df), "cli_transform")
    /\ IF IsEmpty(source_df)
       THEN /\ stderr' = Append(stderr, <<"Warning", NoDataRows>>)
            /\ exit_status' = <<1>>
       ELSE UNCHANGED <<stderr, exit_status>>
    /\ UNCHANGED callVars
    /\ UNCHANGED <<argv, source_file, fs, read_calls, write_calls>>

CliTransform ==
    /\ pc = "cli_transform"
    /\ result' = transform_dataframe(source_df, run_config)
    /\ stdout' = stdout \o result'.echo
    /\ pc' = NextStep(result'.raised, "cli_write")
    /\ IF result'.raised
       THEN /\ stderr' = Append(stderr, Caught(result'.exc, result'.msg))
            /\ exit_status' = <<1>>
       ELSE UNCHANGED <<stderr, exit_status>>
    /\ source_df' = InputAfterTransform(source_df, run_config)
    /\ UNCHANGED <<value, verdict, run_config, call_args, call_result>>
    /\ UNCHANGED <<argv, source_file, fs, read_calls, write_calls>>

CliWriteOutput ==
    /\ pc = "cli_write"
    /\ write_calls' = write_calls + 1
    /\ LET written == write_output(result.table, fs)
       IN  /\ fs' = written.fs
           /\ IF written.raised
              THEN /\ stderr' = Append(stderr, Caught(written.exc, written.msg))
                   /\ exit_status' = <<1>>
                   /\ UNCHANGED stdout
              ELSE /\ stdout' = Append(stdout, [wrote |-> Len(result.table.index)])
                   /\ exit_status' = <<0>>
                   /\ UNCHANGED stderr
    /\ pc' = "exited"
    /\ UNCHANGED <<value, verdict, source_df, run_config, result, call_args, call_result>>
    /\ UNCHANGED <<argv, source_file, read_calls>>

NoArguments == [columns |-> <<>>, case |-> "none", duplicates |-> "error", key |-> <<>>]

\* no function is called on its own
NoCall ==
    /\ call_args = <<>>
    /\ call_result = <<>>

\* no command is running
NoCommand ==
    /\ argv = NoArguments
    /\ source_file = Unsupported
    /\ fs = [dir |-> FALSE, file |-> <<>>, writable |-> FALSE]
    /\ stderr = <<>>
    /\ exit_status = <<>>
    /\ read_calls = 0
    /\ write_calls = 0

NextCli ==
    \/ CliParseMappings
    \/ CliReadFile
    \/ CliCheckEmpty
    \/ CliTransform
    \/ CliWriteOutput

(***************************************************************************)
(* Inputs of transform_dataframe: source tables with a key column K and a  *)
(* second column N, and configurations over a fixed list of mapping lists. *)
(***************************************************************************)
MaxRows == 3

K == <<"K">>

N == <<"N">>

C == <<"C">>

X == <<"X">>

CodeA == <<"1", "1", "1", "1", "1", ".", "2", "2", "2", "2", "2">>

CodeB == <<"3", "3", "3", "3", "3", ".", "4", "4", "4", "4", "4">>

CodeC == <<"5", "5", "5", "5", "5", ".", "6", "6", "6", "6", "6">>

\* the cells a key column is filled from
KeyCells ==
    { Text(CodeA), Text(CodeB), Text(<<" ">> \o CodeA \o <<" ", "\n">>),
      Text(<<"a", "B", ".", "c">>), NA }

\* the cells of the second column, by row
NameCells ==
    <<Text(<<" ", "b", "o", "b", " ", "l", "T", "d">>), NA,
      Text(<<"O", "'", "n", "e", "i", "l", " ">>), Text(<<"3", "r", "d">>),
      Text(<<"x">>), Text(<<"y">>)>>

SourceTable(keys) ==
    Table([r \in 1..Len(keys) |-> r - 1],
          <<Column(K, keys), Column(N, [r \in 1..Len(keys) |-> NameCells[r]])>>)

\* the keep-first example of five rows A, B, A, C, B
ExampleKeys == <<Text(CodeA), Text(CodeB), Text(CodeA), Text(CodeC), Text(CodeB)>>

\* further key columns: a truncated code, blank cells, a code split by a space
ScenarioKeys ==
    { ExampleKeys,
      <<Text(<<"1", "2", "3", "4", "5", ".", "1">>)>>,
      <<Text(CodeA), Text(<<" ", " ">>), NA>>,
      <<Text(<<"1", ".", "1">>), Text(<<>>), Text(<<"1", "1", " ", ".", "2">>)>> }

SourceTables ==
    {SourceTable(keys) : keys \in UNION {[1..n -> KeyCells] : n \in 0..MaxRows}}
    \cup {SourceTable(keys) : keys \in ScenarioKeys}

MappingLists ==
    { <<>>,
      <<ColumnMapping(K, K)>>,
      <<ColumnMapping(K, K), ColumnMapping(N, N)>>,
      <<ColumnMapping(N, N), ColumnMapping(K, C)>>,
      <<ColumnMapping(N, N)>>,
      <<ColumnMapping(N, K)>>,
      <<ColumnMapping(K, K), ColumnMapping(K, C)>>,
      <<ColumnMapping(K, C), ColumnMapping(N, C)>>,
      <<ColumnMapping(K, K), ColumnMapping(X, X)>>,
      <<ColumnMapping(C, C), ColumnMapping(K, K), ColumnMapping(X, N)>> }

CaseModes == {"upper", "lower", "proper", "none"}

DuplicateModes == {"error", "keep-first"}

Configs ==
    {TransformConfig(m, c, d, k) :
        m \in MappingLists, c \in CaseModes, d \in DuplicateModes, k \in {K, C}}

NoConfig == TransformConfig(<<>>, "none", "error", <<>>)

NoResult == Raised(None, "not called", <<>>)

InitTransform ==
    /\ pc = "transform"
    /\ source_df \in SourceTables
    /\ run_config \in Configs
    /\ result = NoResult
    /\ stdout = <<>>
    /\ value = NA
    /\ verdict = NoVerdict
    /\ NoCommand
    /\ NoCall

\* one call of transform_dataframe(df, config)
TransformDataframe ==
    /\ pc = "transform"
    /\ result' = transform_dataframe(source_df, run_config)
    /\ stdout' = stdout \o result'.echo
    /\ pc' = "transformed"
    /\ source_df' = InputAfterTransform(source_df, run_config)
    /\ UNCHANGED <<run_config, value, verdict, call_args, call_result, cliVars>>

NextTransform == TransformDataframe

SpecTransform == InitTransform /\ [][NextTransform]_vars

(***************************************************************************)
(* Inputs of the transform command                                         *)
(***************************************************************************)
MaxFileRows == 2

FileKeyCells == {Text(CodeA), Text(<<"1", "2", "3", "4", "5", ".", "1">>), NA}

SourceFiles ==
    {StoredTable(SourceTable(keys)) : keys \in UNION {[1..n -> FileKeyCells] : n \in 0..MaxFileRows}}
    \cup {Unsupported, Undecodable}

\* the -c options of one command line
ColumnOptions ==
    { <<K, N>>,
      <<<<"K", ":", "C">>, <<" ", "N", " ">>>>,
      <<N>>,
      <<X, K>>,
      <<K, <<"K", ":", "C">>>>,
      <<K, <<"N", ":">>>>,
      <<<<" ">>, K>>,
      <<<<"K", ":", "C", ":", "N">>>> }

OutputPaths ==
    { [dir |-> FALSE, file |-> <<>>, writable |-> TRUE],
      [dir |-> TRUE, file |-> <<>>, writable |-> FALSE],
      [dir |-> TRUE, file |-> <<[header |-> <<X>>, rows |-> <<>>]>>, writable |-> TRUE] }

Arguments ==
    [columns : ColumnOptions, case : CaseModes, duplicates : DuplicateModes, key : {K, C}]

InitCli ==
    /\ pc = "cli_parse"
    /\ argv \in Arguments
    /\ source_file \in SourceFiles
    /\ fs \in OutputPaths
    /\ stderr = <<>>
    /\ exit_status = <<>>
    /\ read_calls = 0
    /\ write_calls = 0
    /\ value = NA
    /\ verdict = NoVerdict
    /\ source_df = NoTable
    /\ run_config = NoConfig
    /\ result = NoResult
    /\ stdout = <<>>
    /\ NoCall

SpecCli == InitCli /\ [][NextCli]_vars

(***************************************************************************)
(* Inputs of the validator: absent, or padding, digits, separator, digits, *)
(* separator, digits, padding.                                             *)
(***************************************************************************)
MaxGroup == 6

MaxTail == 1

Digits(n, d) == [i \in 1..n |-> d]

Separators == {<<>>, <<".">>, <<".", ".">>, <<"a">>, <<"-">>, <<" ">>}

LeftPaddings == {<<>>, <<" ">>}

RightPaddings == {<<>>, <<"\n">>, <<" ", "\t">>}

TailSeparators == {<<>>, <<".">>, <<"a">>}

CodeTexts ==
    { l \o Digits(a, "1") \o x \o Digits(b, "2") \o y \o Digits(c, "3") \o r :
        l \in LeftPaddings, r \in RightPaddings, x \in Separators, y \in TailSeparators,
        a \in 0..MaxGroup, b \in 0..MaxGroup, c \in 0..MaxTail }

CodeInputs == {NA} \cup {Text(s) : s \in CodeTexts}

InitValidator ==
    /\ pc = "validate"
    /\ value \in CodeInputs
    /\ verdict = NoVerdict
    /\ source_df = NoTable
    /\ run_config = NoConfig
    /\ result = NoResult
    /\ stdout = <<>>
    /\ NoCommand
    /\ NoCall

ValidateCode ==
    /\ pc = "validate"
    /\ verdict' = validate_client_matter_code(value)
    /\ pc' = "validated"
    /\ UNCHANGED <<value, source_df, run_config, result, stdout, call_args, call_result, cliVars>>

NextValidator == ValidateCode

SpecValidator == InitValidator /\ [][NextValidator]_vars

(***************************************************************************)
(* Inputs of validate_dataframe_codes: tables as read_file delivers them   *)
(* (row labels 0, 1, 2, ...), with key cells as stored, and the name of a  *)
(* column that exists or not.                                              *)
(***************************************************************************)
StoredKeyCells == KeyCells \cup {Text(<<" ", "1", ".", "2", "\t">>)}

StoredTables ==
    {SourceTable(keys) : keys \in UNION {[1..n -> StoredKeyCells] : n \in 0..MaxRows}}

InitValidateTable ==
    /\ pc = "validate_table"
    /\ call_args \in [df : StoredTables, key_column : {K, N, X}]
    /\ call_result = <<>>
    /\ value = NA
    /\ verdict = NoVerdict
    /\ source_df = NoTable
    /\ run_config = NoConfig
    /\ result = NoResult
    /\ stdout = <<>>
    /\ NoCommand

\* one call of validate_dataframe_codes(df, key_column)
ValidateDataframeCodes ==
    /\ pc = "validate_table"
    /\ call_result' = CallValidateDataframeCodes(call_args.df, call_args.key_column)
    /\ pc' = "validated_table"
    /\ UNCHANGED <<value, verdict, source_df, run_config, result, stdout, call_args, cliVars>>

NextValidateTable == ValidateDataframeCodes

SpecValidateTable == InitValidateTable /\ [][NextValidateTable]_vars

(***************************************************************************)
(* Inputs of the case-transform stage (lines 196-208) run on its own:      *)
(* tables of text cells, as the null normalization leaves them.            *)
(***************************************************************************)
MaxText == 3

CaseChars == {"a", "B", " ", "'", "3"}

CaseTexts == UNION {[1..n -> CaseChars] : n \in 0..MaxText}

\* the texts among the cells of the second column
NameTexts == {NameCells[r].text : r \in {q \in 1..Len(NameCells) : ~NameCells[q].isna}}

TextTables ==
    {Table(<<0>>, <<Column(N, <<Text(s)>>)>>) : s \in CaseTexts \cup NameTexts}
    \cup {Table(<<0, 1>>, <<Column(K, <<Text(s), Text(<<"a", "B", ".", "c">>)>>),
                            Column(N, <<Text(<<"x", " ", "Y">>), Text(s)>>)>>) : s \in NameTexts}

InitCaseStage ==
    /\ pc = "case_stage"
    /\ call_args \in [df : TextTables, case_transform : CaseModes]
    /\ call_result = <<>>
    /\ value = NA
    /\ verdict = NoVerdict
    /\ source_df = NoTable
    /\ run_config = NoConfig
    /\ result = NoResult
    /\ stdout = <<>>
    /\ NoCommand

\* the case-transform stage run on the table the previous run left (the first
\* run on the table given); call_result lists the table after each run
ApplyCaseStage ==
    /\ pc = "case_stage"
    /\ LET current == IF call_result = <<>> THEN call_args.df
                      ELSE call_result[Len(call_result)]
       IN  call_result' = Append(call_result, CaseTransform(current, call_args.case_transform))
    /\ pc' = IF Len(call_result) = 0 THEN "case_stage" ELSE "case_done"
    /\ UNCHANGED <<value, verdict, source_df, run_config, result, stdout, call_args, cliVars>>

NextCaseStage == ApplyCaseStage

SpecCaseStage == InitCaseStage /\ [][NextCaseStage]_vars

(***************************************************************************)
(* Inputs of ColumnMapping(mapping_string): padding, then name parts       *)
(* joined by up to MaxColons colons, then padding.  Inputs of              *)
(* parse_mappings: lists of up to MaxDirectives directives.                *)
(***************************************************************************)
MaxColons == 2

MaxDirectives == 2

NameParts == {<<>>, <<"K">>, <<" ">>, <<" ", "O", " ", "n", "\t">>}

\* the name parts joined by n colons
RECURSIVE JoinedBy(_)
JoinedBy(n) ==
    IF n = 0 THEN NameParts
    ELSE {p \o <<":">> \o q : p \in JoinedBy(n - 1), q \in NameParts}

Directives ==
    {l \o d \o r : l \in {<<>>, <<" ">>}, r \in {<<>>, <<"\n">>},
                    d \in UNION {JoinedBy(n) : n \in 0..MaxColons}}

InitColumnMapping ==
    /\ pc = "construct"
    /\ call_args \in [mapping_string : Directives]
    /\ call_result = <<>>
    /\ value = NA
    /\ verdict = NoVerdict
    /\ source_df = NoTable
    /\ run_config = NoConfig
    /\ result = NoResult
    /\ stdout = <<>>
    /\ NoCommand

\* one construction ColumnMapping(mapping_string)
ConstructMapping ==
    /\ pc = "construct"
    /\ call_result' = ColumnMapping_init(call_args.mapping_string)
    /\ pc' = "constructed"
    /\ UNCHANGED <<value, verdict, source_df, run_config, result, stdout, call_args, cliVars>>

NextColumnMapping == ConstructMapping

SpecColumnMapping == InitColumnMapping /\ [][NextColumnMapping]_vars

\* the directives the lists are made of: three that parse and five that fail
\* in the four different ways
ListDirectives ==
    { K, <<" ", "N", " ", ":", " ", "C">>, <<"K", ":", "C">>,
      <<>>, <<" ">>, <<":">>, <<"K", ":">>, <<"K", ":", "C", ":", "N">> }

InitParseMappings ==
    /\ pc = "parse"
    /\ call_args \in [mapping_strings : UNION {[1..n -> ListDirectives] : n \in 0..MaxDirectives}]
    /\ call_result = <<>>
    /\ value = NA
    /\ verdict = NoVerdict
    /\ source_df = NoTable
    /\ run_config = NoConfig
    /\ result = NoResult
    /\ stdout = <<>>
    /\ NoCommand

\* one call ColumnMapping.parse_mappings(mapping_strings)
ParseMappings ==
    /\ pc = "parse"
    /\ call_result' = parse_mappings(call_args.mapping_strings)
    /\ pc' = "parsed"
    /\ UNCHANGED <<value, verdict, source_df, run_config, result, stdout, call_args, cliVars>>

NextParseMappings == ParseMappings

SpecParseMappings == InitParseMappings /\ [][NextParseMappings]_vars

(***************************************************************************)
(* Inputs of write_output called on its own: a table with or without rows  *)
(* and an output path; call_args.out keeps what the path held before.      *)
(***************************************************************************)
WrittenTables == StoredTables \cup {NoTable}

InitWriteOutput ==
    /\ pc = "write"
    /\ fs \in OutputPaths
    /\ call_args \in [df : WrittenTables, out : {fs}]
    /\ call_result = <<>>
    /\ value = NA
    /\ verdict = NoVerdict
    /\ source_df = NoTable
    /\ run_config = NoConfig
    /\ result = NoResult
    /\ stdout = <<>>
    /\ argv = NoArguments
    /\ source_file = Unsupported
    /\ stderr = <<>>
    /\ exit_status = <<>>
    /\ read_calls = 0
    /\ write_calls = 0

\* one call write_output(df, output_path)
WriteOutput ==
    /\ pc = "write"
    /\ LET written == write_output(call_args.df, fs)
       IN  /\ fs' = written.fs
           /\ call_result' = [raised |-> written.raised, exc |-> written.exc,
                               msg |-> written.msg]
    /\ write_calls' = write_calls + 1
    /\ pc' = "written"
    /\ UNCHANGED <<value, verdict, source_df, run_config, result, stdout, call_args>>
    /\ UNCHANGED <<argv, source_file, stderr, exit_status, read_calls>>

NextWriteOutput == WriteOutput

SpecWriteOutput == InitWriteOutput /\ [][NextWriteOutput]_vars

(***************************************************************************)
(* Inputs of profile_dataframe, and of a transform_dataframe call on the   *)
(* table that was profiled: tables as read_file delivers them, an optional *)
(* key column for the profile, and a configuration with key column K.      *)
(***************************************************************************)
ProfileKeys == {Absent, Some(K), Some(X)}

ProfileConfigs ==
    {TransformConfig(m, c, d, K) :
        m \in { <<ColumnMapping(K, K), ColumnMapping(N, N)>>,
                <<ColumnMapping(N, N), ColumnMapping(K, C)>> },
        c \in CaseModes, d \in DuplicateModes}

InitProfile ==
    /\ pc = "profile"
    /\ source_df \in StoredTables
    /\ call_args \in [key_column : ProfileKeys]
    /\ run_config \in ProfileConfigs
    /\ call_result = <<>>
    /\ result = NoResult
    /\ stdout = <<>>
    /\ value = NA
    /\ verdict = NoVerdict
    /\ NoCommand

\* one call profile_dataframe(df, key_column); the table is then handed to
\* transform_dataframe
ProfileDataframe ==
    /\ pc = "profile"
    /\ LET profiled == profile_dataframe(source_df, call_args.key_column)
       IN  /\ call_result' = profiled.report
           /\ stderr' = stderr \o profiled.err
    /\ source_df' = InputAfterProfile(source_df, call_args.key_column)
    /\ pc' = "transform"
    /\ UNCHANGED <<value, verdict, run_config, result, stdout, call_args>>
    /\ UNCHANGED <<argv, source_file, fs, exit_status, read_calls, write_calls>>

NextProfile ==
    \/ ProfileDataframe
    \/ TransformDataframe

SpecProfile == InitProfile /\ [][NextProfile]_vars

(***************************************************************************)
(* Properties of validate_client_matter_code.  The shapes of a text are    *)
(* stated here by position, independently of the pattern matcher and of    *)
(* Strip.                                                                  *)
(***************************************************************************)
AllWhitespace(s) == \A i \in 1..Len(s) : s[i] \in WhitespaceChars

\* c is t without its surrounding whitespace
IsTrimOf(t, c) ==
    \E i \in 0..Len(t) :
        /\ i + Len(c) <= Len(t)
        /\ \A k \in 1..Len(c) : c[k] = t[i + k]
        /\ \A k \in 1..i : t[k] \in WhitespaceChars
        /\ \A k \in (i + Len(c) + 1)..Len(t) : t[k] \in WhitespaceChars
        /\ c # <<>> => (c[1] \notin WhitespaceChars /\ c[Len(c)] \notin WhitespaceChars)

\* s is m digits, a period, n digits
Shape(s, m, n) ==
    /\ Len(s) = m + n + 1
    /\ s[m + 1] = "."
    /\ \A i \in 1..Len(s) : i # m + 1 => s[i] \in DigitChars

\* text t, trimmed, is m digits, a period, n digits
TrimmedShape(t, m, n) ==
    \E i \in 0..Len(t) :
        /\ i + m + n + 1 <= Len(t)
        /\ Shape([k \in 1..(m + n + 1) |-> t[i + k]], m, n)
        /\ \A k \in 1..i : t[k] \in WhitespaceChars
        /\ \A k \in (i + m + n + 2)..Len(t) : t[k] \in WhitespaceChars

Periods(s) == Cardinality({i \in 1..Len(s) : s[i] = "."})

Reasons == {CodeEmpty, SecondPartTruncated, FirstPartTruncated, MissingPeriod, BadFormat}

Validated == pc = "validated"

\* C6: the verdict is (valid, no reason) exactly when the value is not absent and
\* its trimmed text is 5 digits, a period and 5 digits; every other verdict is
\* invalid with a non-empty reason.
C6_ValidExactlyWellFormed ==
    Validated =>
        /\ verdict = <<TRUE, None>> <=> (~value.isna /\ TrimmedShape(value.text, 5, 5))
        /\ verdict # <<TRUE, None>> => (verdict[1] = FALSE /\ verdict[2] \in Reasons)

\* a valid code surrounded by whitespace was accepted
C6_Witness ==
    /\ Validated
    /\ verdict = <<TRUE, None>>
    /\ Len(value.text) > 11

\* C7: digits, period, 1 to 4 digits is SecondPartTruncated, whatever the length
\* (at least 1) of the first group, also when the first group is short too.
C7_SecondPartWins ==
    Validated /\ ~value.isna =>
        \A m \in 1..Len(value.text), n \in 1..4 :
            TrimmedShape(value.text, m, n) => verdict = <<FALSE, SecondPartTruncated>>

\* the code 1.2, short on both sides, was reported as second part truncated
C7_Witness ==
    /\ Validated
    /\ value = Text(<<"1", ".", "2">>)
    /\ verdict = <<FALSE, SecondPartTruncated>>

\* C8: 1 to 4 digits, period, exactly 5 digits is FirstPartTruncated.
C8_FirstPartTruncated ==
    Validated /\ ~value.isna =>
        \A m \in 1..4 :
            TrimmedShape(value.text, m, 5) => verdict = <<FALSE, FirstPartTruncated>>

\* a code with 4 and 5 digits was reported as first part truncated
C8_Witness ==
    /\ Validated
    /\ ~value.isna
    /\ TrimmedShape(value.text, 4, 5)
    /\ verdict = <<FALSE, FirstPartTruncated>>

\* the trimmed text has one of the three digit shapes the patterns describe
MatchesSomePattern(c) ==
    \E m \in 1..Len(c), n \in 1..Len(c) :
        Shape(c, m, n) /\ ((m = 5 /\ n = 5) \/ n <= 4 \/ m <= 4)

\* C9: a non-absent value whose trimmed text has none of the three digit shapes is
\* MissingPeriod when the text has no period and BadFormat otherwise; extra
\* periods, a period with non-digit characters, an empty group, and two groups of
\* at least 5 digits that are not both 5 long are BadFormat.
C9_FallThrough ==
    Validated /\ ~value.isna =>
        \A c \in {Slice(value.text, i, j) : i \in 1..(Len(value.text) + 1), j \in 0..Len(value.text)} :
            IsTrimOf(value.text, c) =>
                /\ ~MatchesSomePattern(c) =>
                      verdict = <<FALSE, IF Periods(c) = 0 THEN MissingPeriod ELSE BadFormat>>
                /\ Periods(c) >= 2 => verdict = <<FALSE, BadFormat>>
                /\ (Periods(c) >= 1 /\ \E i \in 1..Len(c) : c[i] \notin DigitChars \cup {"."})
                      => verdict = <<FALSE, BadFormat>>
                /\ (c # <<>> /\ (c[1] = "." \/ c[Len(c)] = ".")) => verdict = <<FALSE, BadFormat>>
                /\ \A m \in 5..Len(c), n \in 5..Len(c) :
                      (Shape(c, m, n) /\ ~(m = 5 /\ n = 5)) => verdict = <<FALSE, BadFormat>>

\* two groups of 6 and 5 digits were reported as a bad format
C9_Witness ==
    /\ Validated
    /\ ~value.isna
    /\ TrimmedShape(value.text, 6, 5)
    /\ verdict = <<FALSE, BadFormat>>

\* digits without a period were reported as a missing period
C9_WitnessMissingPeriod ==
    /\ Validated
    /\ value = Text(<<"1", "1", "1">>)
    /\ verdict = <<FALSE, MissingPeriod>>

\* C10: the reason is CodeEmpty exactly for an absent value; an empty or
\* whitespace-only text goes through the cascade and is MissingPeriod.
C10_EmptyOnlyWhenAbsent ==
    Validated =>
        /\ verdict[2] = CodeEmpty <=> value.isna
        /\ value.isna => verdict[1] = FALSE
        /\ (~value.isna /\ AllWhitespace(value.text)) => verdict = <<FALSE, MissingPeriod>>

\* the empty text was reported as a missing period, not as empty
C10_Witness ==
    /\ Validated
    /\ value = Text(<<>>)
    /\ verdict = <<FALSE, MissingPeriod>>

\* a whitespace-only text was reported as a missing period
C10_WitnessWhitespace ==
    /\ Validated
    /\ ~value.isna
    /\ value.text # <<>>
    /\ AllWhitespace(value.text)
    /\ verdict = <<FALSE, MissingPeriod>>

\* the absent value was reported as empty
C10_WitnessAbsent ==
    /\ Validated
    /\ value.isna
    /\ verdict = <<FALSE, CodeEmpty>>

(***************************************************************************)
(* Properties of validate_dataframe_codes                                  *)
(***************************************************************************)
ValidatedTable == pc = "validated_table"

\* the k-th smallest member of a set of numbers
Kth(S, k) == CHOOSE x \in S : Cardinality({y \in S : y < x}) = k - 1

\* the cells of the column the call names (when the table has it)
StoredColumn ==
    call_args.df.columns[CHOOSE i \in 1..Len(call_args.df.columns) :
                             call_args.df.columns[i].name = call_args.key_column].cells

ColumnGiven ==
    \E i \in 1..Len(call_args.df.columns) :
        call_args.df.columns[i].name = call_args.key_column

\* the rows of the column whose cell is absent or, trimmed, not 5.5 digits
InvalidStoredRows ==
    {r \in 1..Len(StoredColumn) :
        StoredColumn[r].isna \/ ~TrimmedShape(StoredColumn[r].text, 5, 5)}

\* C11: on a table that has the column, validate_dataframe_codes raises nothing
\* and returns one error per invalid cell and none for a valid cell, in row
\* order, with row = zero-based row index + 2 and value = the cell as stored,
\* untrimmed; a column of zero rows gives the empty list.
C11_OneErrorPerInvalidCell ==
    (ValidatedTable /\ ColumnGiven) =>
        /\ ~call_result.raised
        /\ Len(call_result.errors) = Cardinality(InvalidStoredRows)
        /\ \A k \in 1..Len(call_result.errors) :
              LET r == Kth(InvalidStoredRows, k)
              IN  /\ call_result.errors[k].row = (r - 1) + 2
                  /\ call_result.errors[k].value = StoredColumn[r]
                  /\ call_result.errors[k].error \in Reasons
        /\ Len(StoredColumn) = 0 => call_result.errors = <<>>

\* a padded invalid cell in the third row, after a valid and an absent cell, was
\* reported second, as row 4, with its padding
C11_Witness ==
    /\ ValidatedTable
    /\ ColumnGiven
    /\ Len(StoredColumn) = 3
    /\ ~StoredColumn[1].isna /\ TrimmedShape(StoredColumn[1].text, 5, 5)
    /\ StoredColumn[2].isna
    /\ Len(call_result.errors) = 2
    /\ call_result.errors[2] =
          ValidationError(4, Text(<<" ", "1", ".", "2", "\t">>), SecondPartTruncated)

\* a column of zero rows gave the empty list
C11_WitnessNoRows ==
    /\ ValidatedTable
    /\ ColumnGiven
    /\ Len(StoredColumn) = 0
    /\ call_result = [raised |-> FALSE, exc |-> None, msg |-> None, errors |-> <<>>]

(***************************************************************************)
(* Properties of transform_dataframe.  What a run is expected to see is    *)
(* stated from the arguments of the call: the projected column names, and  *)
(* the key cells as they stand after trimming, null normalization and case *)
(* conversion.                                                             *)
(***************************************************************************)
Transformed == pc = "transformed"

Mappings == run_config.column_mappings

\* the name the i-th projected column carries after the rename
ProjectedName(i) ==
    LET same == {j \in 1..Len(Mappings) : Mappings[j].source_name = Mappings[i].source_name}
    IN  Mappings[CHOOSE j \in same : \A k \in same : k <= j].dest_name

DestNames == {Mappings[i].dest_name : i \in 1..Len(Mappings)}

SourceCells(name) ==
    source_df.columns[CHOOSE i \in 1..Len(source_df.columns) :
                          source_df.columns[i].name = name].cells

\* the run gets past stages 1 to 5: rows and mappings exist, every source is a
\* column, and no two projected columns carry the same name
ReachesKeyStages ==
    /\ Len(source_df.index) > 0
    /\ Len(source_df.columns) > 0
    /\ Mappings # <<>>
    /\ \A i \in 1..Len(Mappings) :
          \E c \in 1..Len(source_df.columns) :
              source_df.columns[c].name = Mappings[i].source_name
    /\ \A i, j \in 1..Len(Mappings) : i # j => ProjectedName(i) # ProjectedName(j)

KeyProjected == \E i \in 1..Len(Mappings) : ProjectedName(i) = run_config.key_column

\* a source cell as stages 3 to 5 leave it
CleanedCell(cell) ==
    LET trimmed == IF cell.isna THEN <<>> ELSE Strip(cell.text)
    IN  Text(CASE run_config.case_transform = "upper" -> str_upper(trimmed)
               [] run_config.case_transform = "lower" -> str_lower(trimmed)
               [] run_config.case_transform = "proper" -> str_title(trimmed)
               [] OTHER -> trimmed)

\* the i-th projected column after stages 3 to 5
CleanedColumn(i) ==
    LET cells == SourceCells(Mappings[i].source_name)
    IN  [r \in 1..Len(cells) |-> CleanedCell(cells[r])]

\* the key column after stages 3 to 5 (when the key is projected)
KeyColumn == CleanedColumn(CHOOSE i \in 1..Len(Mappings) : ProjectedName(i) = run_config.key_column)

IsValidCode(cell) == TrimmedShape(cell.text, 5, 5)

InvalidRows == {r \in 1..Len(KeyColumn) : ~IsValidCode(KeyColumn[r])}

\* rows whose key equals the key of an earlier row
LaterRows == {r \in 1..Len(KeyColumn) : \E q \in 1..(r - 1) : KeyColumn[q] = KeyColumn[r]}

FirstRows == (1..Len(KeyColumn)) \ LaterRows

C3_KeyNotProjectedSkipsKeyStages ==
    (Transformed /\ run_config.key_column \notin DestNames) =>
        /\ result.msg \notin {ValidationFailed, DuplicateKeys, AllRowsDuplicated}
        /\ stdout = <<>>
        /\ ReachesKeyStages =>
              /\ ~result.raised
              /\ result.table.index = source_df.index
              /\ Len(result.table.columns) = Len(Mappings)
              /\ \A i \in 1..Len(Mappings) :
                    /\ result.table.columns[i].name = ProjectedName(i)
                    /\ result.table.columns[i].cells = CleanedColumn(i)

\* the key column K went out under the name C with an invalid and a repeated
\* value, and all rows were returned
C3_Witness ==
    /\ Transformed
    /\ run_config.key_column = K
    /\ Mappings = <<ColumnMapping(N, N), ColumnMapping(K, C)>>
    /\ \E r \in 1..Len(SourceCells(K)) : SourceCells(K)[r] = Text(<<"a", "B", ".", "c">>)
    /\ \E q, r \in 1..Len(SourceCells(K)) : q # r /\ SourceCells(K)[q] = SourceCells(K)[r]
    /\ ~result.raised
    /\ Len(result.table.index) = 3

\* C4: with duplicate_handling = error, the key projected and every key cell
\* valid, a key equal to an earlier key raises DuplicateKeys listing, in row
\* order, the key of every non-first occurrence and no first occurrence.
C4_DuplicateKeysListsLaterOccurrences ==
    (/\ Transformed /\ ReachesKeyStages /\ KeyProjected
     /\ run_config.duplicate_handling = "error"
     /\ InvalidRows = {} /\ LaterRows # {}) =>
        /\ result.raised
        /\ result.exc = "ValueError"
        /\ result.msg = DuplicateKeys
        /\ result.table = NoTable
        /\ Len(result.detail) = Cardinality(LaterRows)
        /\ \A k \in 1..Len(result.detail) :
              result.detail[k] = KeyColumn[Kth(LaterRows, k)].text

\* the keys X, X, X were reported as the two duplicates X, X
C4_Witness ==
    /\ Transformed
    /\ ReachesKeyStages
    /\ KeyProjected
    /\ KeyColumn = <<Text(CodeA), Text(CodeA), Text(CodeA)>>
    /\ result.msg = DuplicateKeys
    /\ result.detail = <<CodeA, CodeA>>

\* the keys X, Y, X were reported as the one duplicate X
C4_WitnessXYX ==
    /\ Transformed
    /\ ReachesKeyStages
    /\ KeyProjected
    /\ KeyColumn = <<Text(CodeA), Text(CodeB), Text(CodeA)>>
    /\ result.msg = DuplicateKeys
    /\ result.detail = <<CodeA>>

\* C5: with duplicate_handling = keep-first, the key projected and every key
\* cell valid, the run returns exactly the rows that are the first occurrence of
\* their key, in their original order, and when rows were removed it echoes their
\* number, the number of non-first occurrences; the keys A, B, A, C, B keep
\* rows 1, 2 and 4 and remove 2.
C5_KeepFirstRetainsFirstOccurrences ==
    (/\ Transformed /\ ReachesKeyStages /\ KeyProjected
     /\ run_config.duplicate_handling = "keep-first"
     /\ InvalidRows = {}) =>
        /\ ~result.raised
        /\ Len(result.table.index) = Cardinality(FirstRows)
        /\ \A k \in 1..Len(result.table.index) :
              /\ result.table.index[k] = source_df.index[Kth(FirstRows, k)]
              /\ \A i \in 1..Len(Mappings) :
                    /\ result.table.columns[i].name = ProjectedName(i)
                    /\ Len(result.table.columns[i].cells) = Cardinality(FirstRows)
                    /\ result.table.columns[i].cells[k] = CleanedColumn(i)[Kth(FirstRows, k)]
        /\ Len(result.table.columns) = Len(Mappings)
        /\ stdout = IF LaterRows = {} THEN <<>>
                    ELSE <<[removed |-> Cardinality(LaterRows)]>>
        /\ LaterRows # {} =>
              stdout[1].removed = Len(source_df.index) - Len(result.table.index)
        /\ KeyColumn = ExampleKeys =>
              /\ result.table.index = <<0, 1, 3>>
              /\ stdout = <<[removed |-> 2]>>

\* the keys A, B, A, C, B came back as rows 1, 2 and 4 with 2 rows removed
C5_Witness ==
    /\ Transformed
    /\ ReachesKeyStages
    /\ KeyProjected
    /\ run_config.duplicate_handling = "keep-first"
    /\ KeyColumn = ExampleKeys
    /\ ~result.raised
    /\ Len(result.table.index) = 3
    /\ stdout = <<[removed |-> 2]>>

\* the call gets past the two edge-case checks: the table and the mapping list
\* are not empty
PastEdgeCases ==
    /\ Len(source_df.index) > 0
    /\ Len(source_df.columns) > 0
    /\ Mappings # <<>>

SourceExists(i) ==
    \E c \in 1..Len(source_df.columns) : source_df.columns[c].name = Mappings[i].source_name

\* the position in the source table of the row labelled l (labels are 0, 1, ...)
RowOf(l) == l + 1

\* C12: for a non-empty table and a non-empty mapping list whose sources all
\* exist, also a list that repeats a source or a destination, the call ends in
\* one of the failures of the key stages or returns a table whose columns are
\* named by the mappings' dest_name in mapping order, the i-th column holding
\* the returned rows of the i-th mapping's source column.
C12_ColumnsFollowMappings ==
    (Transformed /\ PastEdgeCases /\ \A i \in 1..Len(Mappings) : SourceExists(i)) =>
        /\ result.raised => result.msg \in {ValidationFailed, DuplicateKeys, AllRowsDuplicated}
        /\ ~result.raised =>
              /\ Len(result.table.columns) = Len(Mappings)
              /\ \A i \in 1..Len(Mappings) :
                    /\ result.table.columns[i].name = Mappings[i].dest_name
                    /\ Len(result.table.columns[i].cells) = Len(result.table.index)
                    /\ \A k \in 1..Len(result.table.index) :
                          result.table.columns[i].cells[k] =
                              CleanedColumn(i)[RowOf(result.table.index[k])]

\* C13: on a non-empty table with non-empty mappings, a mapping whose source is
\* not a column makes the call raise MissingColumn, naming the first absent source
\* in mapping order and all the column names of the table; no table is returned.
C13_MissingColumnNamesFirstAbsent ==
    (Transformed /\ PastEdgeCases /\ \E i \in 1..Len(Mappings) : ~SourceExists(i)) =>
        LET first == CHOOSE i \in 1..Len(Mappings) :
                         /\ ~SourceExists(i)
                         /\ \A j \in 1..(i - 1) : SourceExists(j)
        IN  /\ result.raised
            /\ result.exc = "ValueError"
            /\ result.msg = MissingColumn
            /\ result.detail[1] = Mappings[first].source_name
            /\ result.detail[2] = [c \in 1..Len(source_df.columns) |-> source_df.columns[c].name]
            /\ result.table = NoTable

\* with the sources C, K, X, of which C and X are absent, the call named C and
\* listed the columns K, N
C13_Witness ==
    /\ Transformed
    /\ Len(source_df.index) > 0
    /\ SourceCols(Mappings) = <<C, K, X>>
    /\ result.msg = MissingColumn
    /\ result.detail = <<C, <<K, N>>>>

\* the source cell behind row k of column i of the returned table
SourceCellOf(i, k) == SourceCells(Mappings[i].source_name)[RowOf(result.table.index[k])]

NoSurroundingWhitespace(s) ==
    s # <<>> => (s[1] \notin WhitespaceChars /\ s[Len(s)] \notin WhitespaceChars)

\* C14: in a returned table, for every case_mode, every cell of every column is
\* a text without leading or trailing whitespace and none is absent; a cell whose
\* source cell is absent or whitespace-only is the empty text.
C14_CellsTrimmedNoneAbsent ==
    (Transformed /\ ~result.raised) =>
        \A i \in 1..Len(result.table.columns) :
            /\ Len(result.table.columns[i].cells) = Len(result.table.index)
            /\ \A k \in 1..Len(result.table.index) :
                  LET cell == result.table.columns[i].cells[k]
                      source == SourceCellOf(i, k)
                  IN  /\ ~cell.isna
                      /\ NoSurroundingWhitespace(cell.text)
                      /\ (source.isna \/ AllWhitespace(source.text)) => cell.text = <<>>

\* with case_mode = proper a table came back in which an absent cell and a
\* whitespace-only cell are both the empty text and a padded cell is trimmed
C14_Witness ==
    /\ Transformed
    /\ ~result.raised
    /\ run_config.case_transform = "proper"
    /\ \E i, j \in 1..Len(result.table.columns), k, l, m \in 1..Len(result.table.index) :
          /\ SourceCellOf(i, k).isna
          /\ result.table.columns[i].cells[k] = Text(<<>>)
          /\ SourceCellOf(j, l) = Text(<<" ", " ">>)
          /\ result.table.columns[j].cells[l] = Text(<<>>)
          /\ SourceCellOf(i, m) = Text(<<"O", "'", "n", "e", "i", "l", " ">>)
          /\ Len(result.table.columns[i].cells[m].text) = 6

\* a text with the first character of each whitespace-delimited word
\* capitalized and every other letter lowercased
WordCase(s) ==
    [p \in 1..Len(s) |->
        IF p = 1 \/ s[p - 1] \in WhitespaceChars THEN UpperChar(s[p]) ELSE LowerChar(s[p])]

\* a source cell after null normalization and trimming
TrimmedText(cell) == IF cell.isna THEN <<>> ELSE Strip(cell.text)

\* C15: with case_mode = proper every cell of a returned table is its trimmed
\* source text with the first letter of each whitespace-delimited word
\* capitalized and every other letter lowercased; a digit, hyphen or apostrophe
\* inside a word does not start a new capital.
C15_ProperCaseByWhitespaceWords ==
    (Transformed /\ ~result.raised /\ run_config.case_transform = "proper") =>
        \A i \in 1..Len(result.table.columns) :
            \A k \in 1..Len(result.table.index) :
                result.table.columns[i].cells[k].text = WordCase(TrimmedText(SourceCellOf(i, k)))

(***************************************************************************)
(* Properties of the case-transform stage                                  *)
(***************************************************************************)
\* C16: for case_mode upper, lower and proper, the table after the second run
\* of the case-transform stage is the table after the first run.
C16_CaseStageIdempotent ==
    (pc = "case_done" /\ call_args.case_transform \in {"upper", "lower", "proper"}) =>
        /\ Len(call_result) = 2
        /\ call_result[2] = call_result[1]

\* the proper-case stage changed a table of mixed-case words on its first run
\* and left it alone on the second
C16_Witness ==
    /\ pc = "case_done"
    /\ call_args.case_transform = "proper"
    /\ call_args.df.columns[1].cells[1] = Text(<<" ", "b", "o", "b", " ", "l", "T", "d">>)
    /\ call_result[1] # call_args.df
    /\ call_result[2] = call_result[1]

(***************************************************************************)
(* Properties of the transform command                                     *)
(***************************************************************************)
Exited == pc = "exited"

\* a statement before write_output has run and failed: the mappings did not
\* parse, the file could not be read or held no rows, or transform_dataframe raised
FailedBeforeWrite ==
    \/ pc # "cli_parse" /\ parse_mappings(argv.columns).raised
    \/ read_calls > 0 /\ read_file(source_file).raised
    \/ read_calls > 0 /\ pc # "cli_empty" /\ IsEmpty(read_file(source_file).table)
    \/ result.raised /\ result.exc # None

\* C2: as soon as mapping parsing, reading, the empty-input check or a stage of
\* transform_dataframe has failed, the command has exited with status 1 without
\* a call of write_output; the output path changes only inside a write_output
\* call, so it holds what it held before the command.
C2_FailureNeverWrites ==
    /\ [](FailedBeforeWrite => (Exited /\ exit_status = <<1>> /\ write_calls = 0))
    /\ [][write_calls' = write_calls => fs' = fs]_vars

\* the command exited with status 1 on duplicate keys and the output directory
\* and file were not created
C2_Witness ==
    /\ Exited
    /\ result.msg = DuplicateKeys
    /\ exit_status = <<1>>
    /\ write_calls = 0
    /\ fs = [dir |-> FALSE, file |-> <<>>, writable |-> TRUE]

\* the command exited with status 1 on a mapping that does not parse, before
\* anything was read
C2_WitnessParse ==
    /\ Exited
    /\ parse_mappings(argv.columns).raised
    /\ exit_status = <<1>>
    /\ read_calls = 0

\* the command wrote its output and exited with status 0
C2_WitnessSuccess ==
    /\ Exited
    /\ exit_status = <<0>>
    /\ write_calls = 1
    /\ fs.file # <<>>

\* transform_dataframe has been called by the command and returned a table
CliReturned == result # NoResult /\ ~result.raised

\* the write_output step is about to run or has run
AtWrite == pc = "cli_write" \/ write_calls > 0

Constructed == pc = "constructed"

\* the positions of the colons of a directive
ColonsOf(d) == {i \in 1..Len(d) : d[i] = ":"}

\* the text before, and after, the colon at position p
BeforeColon(d, p) == [i \in 1..(p - 1) |-> d[i]]

AfterColon(d, p) == [i \in 1..(Len(d) - p) |-> d[p + i]]

\* the construction failed with the given message
FailedWith(msg) ==
    /\ call_result.raised
    /\ call_result.exc = "ValueError"
    /\ call_result.msg = msg

\* C18: a constructed ColumnMapping has a source_name and a dest_name that are
\* not empty and carry no surrounding whitespace; a non-blank directive without
\* a colon is constructed with both names the trimmed directive; a directive with
\* one colon and non-blank text on both sides is constructed with the trimmed
\* text before the colon as source_name and the trimmed text after it as
\* dest_name.
C18_ConstructedNamesTrimmedNonEmpty ==
    Constructed =>
        LET d == call_args.mapping_string
            m == call_result.mapping
        IN  /\ ~call_result.raised =>
                  /\ m.source_name # <<>> /\ m.dest_name # <<>>
                  /\ NoSurroundingWhitespace(m.source_name)
                  /\ NoSurroundingWhitespace(m.dest_name)
                  /\ Cardinality(ColonsOf(d)) <= 1
            /\ (ColonsOf(d) = {} /\ ~AllWhitespace(d)) =>
                  /\ ~call_result.raised
                  /\ m.source_name = m.dest_name
                  /\ IsTrimOf(d, m.source_name)
            /\ \A p \in ColonsOf(d) :
                  (/\ ColonsOf(d) = {p}
                   /\ ~AllWhitespace(BeforeColon(d, p))
                   /\ ~AllWhitespace(AfterColon(d, p))) =>
                      /\ ~call_result.raised
                      /\ IsTrimOf(BeforeColon(d, p), m.source_name)
                      /\ IsTrimOf(AfterColon(d, p), m.dest_name)

\* a padded directive with padded names on both sides of its colon was
\* constructed with both names trimmed
C18_Witness ==
    /\ Constructed
    /\ call_args.mapping_string =
          <<" ", " ", "O", " ", "n", "\t", ":", " ", "O", " ", "n", "\t", "\n">>
    /\ ~call_result.raised
    /\ call_result.mapping = ColumnMapping(<<"O", " ", "n">>, <<"O", " ", "n">>)

\* a padded directive without a colon was constructed with both names the
\* trimmed directive
C18_WitnessNoColon ==
    /\ Constructed
    /\ call_args.mapping_string = <<" ", "K", "\n">>
    /\ call_result.mapping = ColumnMapping(K, K)

\* C19: the construction fails, with no mapping, with EmptyMapping when the
\* directive is blank, MalformedMapping when it has more than one colon,
\* EmptySourceName when the text before its single colon is blank, and
\* EmptyDestName when only the text after it is blank; a colon alone fails with
\* EmptySourceName.
C19_ConstructionFailures ==
    Constructed =>
        LET d == call_args.mapping_string
        IN  /\ AllWhitespace(d) => FailedWith(EmptyMapping)
            /\ Cardinality(ColonsOf(d)) > 1 => FailedWith(MalformedMapping)
            /\ \A p \in ColonsOf(d) :
                  ColonsOf(d) = {p} =>
                      /\ AllWhitespace(BeforeColon(d, p)) => FailedWith(EmptySourceName)
                      /\ (~AllWhitespace(BeforeColon(d, p)) /\ AllWhitespace(AfterColon(d, p)))
                            => FailedWith(EmptyDestName)
            /\ d = <<":">> => FailedWith(EmptySourceName)
            /\ call_result.raised =>
                  /\ call_result.mapping = ColumnMapping(<<>>, <<>>)
                  /\ call_result.msg \in
                        {EmptyMapping, MalformedMapping, EmptySourceName, EmptyDestName}

\* a colon alone failed with EmptySourceName
C19_Witness ==
    /\ Constructed
    /\ call_args.mapping_string = <<":">>
    /\ FailedWith(EmptySourceName)

\* a name followed by a colon and blanks failed with EmptyDestName
C19_WitnessDest ==
    /\ Constructed
    /\ call_args.mapping_string = <<"K", ":", " ", "\n">>
    /\ FailedWith(EmptyDestName)

\* a directive with two colons failed with MalformedMapping, a blank one with
\* EmptyMapping
C19_WitnessMalformed ==
    /\ Constructed
    /\ \/ call_args.mapping_string = <<"K", ":", "K", ":", "K">> /\ FailedWith(MalformedMapping)
       \/ call_args.mapping_string = <<" ", " ", "\n">> /\ FailedWith(EmptyMapping)

(***************************************************************************)
(* Properties of ColumnMapping.parse_mappings                              *)
(***************************************************************************)
Parsed == pc = "parsed"

\* the positions of the directives of the list that do not construct
InvalidDirectives ==
    {i \in 1..Len(call_args.mapping_strings) :
        ColumnMapping_init(call_args.mapping_strings[i]).raised}

\* C20: when every directive of the list constructs, parse_mappings returns one
\* mapping per directive in the order of the list; when some directive does not,
\* it fails with the error of the first such directive in the list and returns
\* no mapping, also not for the valid directives before it.
C20_AllOrFirstError ==
    Parsed =>
        LET ds == call_args.mapping_strings
        IN  /\ InvalidDirectives = {} =>
                  /\ ~call_result.raised
                  /\ Len(call_result.mappings) = Len(ds)
                  /\ \A i \in 1..Len(ds) :
                        call_result.mappings[i] = ColumnMapping_init(ds[i]).mapping
            /\ InvalidDirectives # {} =>
                  LET first == Kth(InvalidDirectives, 1)
                  IN  /\ call_result.raised
                      /\ call_result.exc = "ValueError"
                      /\ call_result.msg = ColumnMapping_init(ds[first]).msg
                      /\ call_result.mappings = <<>>

\* a valid directive followed by one with an empty destination failed with
\* EmptyDestName and returned nothing
C20_Witness ==
    /\ Parsed
    /\ call_args.mapping_strings = <<K, <<"K", ":">>>>
    /\ call_result.raised
    /\ call_result.msg = EmptyDestName
    /\ call_result.mappings = <<>>

\* two valid directives gave their two mappings in order
C20_WitnessValid ==
    /\ Parsed
    /\ call_args.mapping_strings = <<<<" ", "N", " ", ":", " ", "C">>, K>>
    /\ call_result.mappings = <<ColumnMapping(N, C), ColumnMapping(K, K)>>

(***************************************************************************)
(* Properties of the order of the transform command                        *)
(***************************************************************************)
\* a directive that is blank, has more than one colon, or has a blank side of
\* its colon
InvalidDirective(d) ==
    \/ AllWhitespace(d)
    \/ Cardinality(ColonsOf(d)) > 1
    \/ \E p \in ColonsOf(d) :
          AllWhitespace(BeforeColon(d, p)) \/ AllWhitespace(AfterColon(d, p))

SomeDirectiveInvalid == \E i \in 1..Len(argv.columns) : InvalidDirective(argv.columns[i])

\* C21: the directives are all parsed before the input file is read: once the
\* parsing step has run on a list with an invalid directive, the command has
\* exited with status 1 and has read no table, run no stage of the pipeline and
\* not called write_output; and whenever the file has been read, every directive
\* was valid and the configuration holds one mapping per directive.
C21_DirectivesParsedBeforeRead ==
    /\ (pc # "cli_parse" /\ SomeDirectiveInvalid) =>
          /\ Exited
          /\ exit_status = <<1>>
          /\ read_calls = 0
          /\ source_df = NoTable
          /\ result = NoResult
          /\ stdout = <<>>
          /\ write_calls = 0
          /\ fs \in OutputPaths
    /\ read_calls > 0 =>
          /\ ~SomeDirectiveInvalid
          /\ Len(run_config.column_mappings) = Len(argv.columns)

\* the directive "N:" after a valid one ended the command with status 1 before
\* the file was read
C21_Witness ==
    /\ Exited
    /\ argv.columns = <<K, <<"N", ":">>>>
    /\ exit_status = <<1>>
    /\ stderr = <<<<"Validation Error", EmptyDestName>>>>
    /\ read_calls = 0
    /\ write_calls = 0

\* a blank directive ended the command the same way
C21_WitnessBlank ==
    /\ Exited
    /\ argv.columns[1] = <<" ">>
    /\ exit_status = <<1>>
    /\ read_calls = 0

(***************************************************************************)
(* Properties of write_output                                              *)
(***************************************************************************)
Written == pc = "written"

\* C23: write_output on a table with zero rows raises EmptyOutput and leaves the
\* output path as it was: the parent directory and the file are not created, and
\* a file already there is not changed.
C23_EmptyOutputBeforeMkdir ==
    (Written /\ Len(call_args.df.index) = 0) =>
        /\ call_result = [raised |-> TRUE, exc |-> "ValueError", msg |-> EmptyOutput]
        /\ fs = call_args.out

\* a table with two columns and no rows was refused and the missing parent
\* directory was not created
C23_Witness ==
    /\ Written
    /\ Len(call_args.df.index) = 0
    /\ Len(call_args.df.columns) = 2
    /\ call_result.msg = EmptyOutput
    /\ call_args.out.dir = FALSE
    /\ fs.dir = FALSE
    /\ fs.file = <<>>

\* a table with rows was written and the missing parent directory created
C23_WitnessWritten ==
    /\ Written
    /\ Len(call_args.df.index) > 0
    /\ ~call_result.raised
    /\ call_args.out.dir = FALSE
    /\ fs.dir = TRUE
    /\ fs.file = <<CsvLines(call_args.df)>>

(***************************************************************************)
(* Properties of profile_dataframe, and of the two functions together      *)
(***************************************************************************)
Profiled == pc # "profile"

C22_WitnessFailed ==
    /\ Transformed
    /\ result.msg = ValidationFailed
    /\ \E r \in 1..Len(source_df.index) :
          source_df.columns[1].cells[r] = Text(<<" ", "1", ".", "2", "\t">>)

\* the profile was asked for a key column, and the table has it
ProfileKeyPresent ==
    /\ call_args.key_column # Absent
    /\ \E c \in 1..Len(source_df.columns) : source_df.columns[c].name = call_args.key_column[1]

ProfileKeyMissing ==
    /\ call_args.key_column # Absent
    /\ \A c \in 1..Len(source_df.columns) : source_df.columns[c].name # call_args.key_column[1]

\* the cells of the profile's key column as stored
ProfileKeyCells == SourceCells(call_args.key_column[1])

\* the rows whose key cell equals the key cell of an earlier row
RecurringRows ==
    {r \in 1..Len(ProfileKeyCells) :
        \E q \in 1..(r - 1) : ProfileKeyCells[q] = ProfileKeyCells[r]}

\* C24: with a key column that the table has, duplicate_info is None when no
\* key cell equals an earlier one; otherwise its count is the number of key
\* cells equal to an earlier key cell and its values list holds each recurring
\* value exactly once, so that count >= number of values >= 1.
C24_DuplicateReport ==
    (Profiled /\ ProfileKeyPresent) =>
        LET info == call_result.duplicate_info
            recurring == {ProfileKeyCells[r] : r \in RecurringRows}
        IN  /\ RecurringRows = {} <=> info = Absent
            /\ RecurringRows # {} =>
                  /\ Len(info) = 1
                  /\ info[1].column = call_args.key_column[1]
                  /\ info[1].count = Cardinality(RecurringRows)
                  /\ {info[1].values[k] : k \in 1..Len(info[1].values)} = recurring
                  /\ Len(info[1].values) = Cardinality(recurring)
                  /\ info[1].count >= Len(info[1].values)
                  /\ Len(info[1].values) >= 1

\* the keys A, B, A were reported as 1 duplicate with the values list [A]
C24_Witness ==
    /\ Profiled
    /\ ProfileKeyPresent
    /\ ProfileKeyCells = <<Text(CodeA), Text(CodeB), Text(CodeA)>>
    /\ call_result.duplicate_info =
          Some([count |-> 1, column |-> K, values |-> <<Text(CodeA)>>])

\* the keys A, A, A were reported as 2 duplicates with the values list [A]
C24_WitnessThrice ==
    /\ Profiled
    /\ ProfileKeyPresent
    /\ ProfileKeyCells = <<Text(CodeA), Text(CodeA), Text(CodeA)>>
    /\ call_result.duplicate_info[1].count = 2
    /\ Len(call_result.duplicate_info[1].values) = 1

\* C25: with a key column that the table does not have, profile_dataframe
\* writes one diagnostic and returns the report with total_rows, total_columns
\* and the statistics of every column, duplicate_info and validation_errors both
\* None; with a key column that the table has, validation_errors is the list
\* validate_dataframe_codes returns, the empty list when every code is valid,
\* and nothing is written.
C25_MissingKeyIsNotAFailure ==
    Profiled =>
        /\ call_result.total_rows = Len(source_df.index)
        /\ call_result.total_columns = Len(source_df.columns)
        /\ Len(call_result.columns_stats) = Len(source_df.columns)
        /\ \A c \in 1..Len(source_df.columns) :
              /\ call_result.columns_stats[c].name = source_df.columns[c].name
              /\ call_result.columns_stats[c].missing_values =
                    Cardinality({r \in 1..Len(source_df.index) :
                                    source_df.columns[c].cells[r].isna})
        /\ ProfileKeyMissing =>
              /\ stderr = <<<<KeyNotFound, call_args.key_column[1]>>>>
              /\ call_result.duplicate_info = Absent
              /\ call_result.validation_errors = Absent
        /\ ProfileKeyPresent =>
              /\ stderr = <<>>
              /\ call_result.validation_errors =
                    Some(validate_dataframe_codes(source_df, call_args.key_column[1]))
              /\ (\A r \in 1..Len(ProfileKeyCells) :
                     ~ProfileKeyCells[r].isna /\ TrimmedShape(ProfileKeyCells[r].text, 5, 5))
                    => call_result.validation_errors = Some(<<>>)

\* a profile asked for the column X of a table with columns K and N wrote one
\* diagnostic and returned the counts and statistics of three rows
C25_Witness ==
    /\ Profiled
    /\ ProfileKeyMissing
    /\ stderr = <<<<KeyNotFound, X>>>>
    /\ call_result.total_rows = 3
    /\ call_result.total_columns = 2
    /\ call_result.columns_stats[2].missing_values = 1
    /\ call_result.duplicate_info = Absent
    /\ call_result.validation_errors = Absent

\* a profile of a key column of valid codes returned the empty list
C25_WitnessAllValid ==
    /\ Profiled
    /\ ProfileKeyPresent
    /\ Len(ProfileKeyCells) = 2
    /\ call_result.validation_errors = Some(<<>>)

\* the table given to transform_dataframe is empty (df.empty)
EmptyTableGiven == Len(source_df.index) = 0 \/ Len(source_df.columns) = 0

\* C26: transform_dataframe reports the earliest failure that holds: EmptyInput
\* for an empty table whatever the mappings, NoMappings for a non-empty table
\* without mappings, MissingColumn when a source is absent whatever the key
\* cells, ValidationFailed when a key cell is invalid whether or not keys
\* repeat and in both duplicate modes, and DuplicateKeys only when every key
\* cell is valid.
C26_FailuresInStageOrder ==
    Transformed =>
        /\ EmptyTableGiven =>
              result.raised /\ result.msg = EmptyInput
        /\ (~EmptyTableGiven /\ Mappings = <<>>) =>
              result.raised /\ result.msg = NoMappings
        /\ (PastEdgeCases /\ \E i \in 1..Len(Mappings) : ~SourceExists(i)) =>
              result.raised /\ result.msg = MissingColumn
        /\ (ReachesKeyStages /\ KeyProjected /\ InvalidRows # {}) =>
              result.raised /\ result.msg = ValidationFailed
        /\ (ReachesKeyStages /\ KeyProjected /\ InvalidRows = {} /\ LaterRows # {}
            /\ run_config.duplicate_handling = "error") =>
              result.raised /\ result.msg = DuplicateKeys
        /\ (result.raised /\ result.msg = DuplicateKeys) =>
              ReachesKeyStages /\ KeyProjected /\ InvalidRows = {}

\* a key column with an invalid code and a repeated valid code failed with
\* ValidationFailed in keep-first mode
C26_Witness ==
    /\ Transformed
    /\ ReachesKeyStages
    /\ KeyProjected
    /\ run_config.duplicate_handling = "keep-first"
    /\ InvalidRows = {2}
    /\ LaterRows = {3}
    /\ IsValidCode(KeyColumn[3])
    /\ result.raised
    /\ result.msg = ValidationFailed

\* the same in error mode
C26_WitnessErrorMode ==
    /\ Transformed
    /\ ReachesKeyStages
    /\ KeyProjected
    /\ run_config.duplicate_handling = "error"
    /\ InvalidRows = {2}
    /\ LaterRows = {3}
    /\ IsValidCode(KeyColumn[3])
    /\ result.raised
    /\ result.msg = ValidationFailed

\* an empty table with empty mappings failed with EmptyInput
C26_WitnessEmptyBoth ==
    /\ Transformed
    /\ EmptyTableGiven
    /\ Mappings = <<>>
    /\ result.raised
    /\ result.msg = EmptyInput

\* a table with an absent source column and an invalid key failed with
\* MissingColumn
C26_WitnessMissingColumn ==
    /\ Transformed
    /\ PastEdgeCases
    /\ \E i \in 1..Len(Mappings) : ~SourceExists(i)
    /\ \E r \in 1..Len(SourceCells(K)) : SourceCells(K)[r].isna
    /\ result.raised
    /\ result.msg = MissingColumn

\* the key cells of the table given, as stored (when the key is projected)
SourceKeyCells ==
    SourceCells(Mappings[CHOOSE i \in 1..Len(Mappings) :
                             ProjectedName(i) = run_config.key_column].source_name)

\* the key cells of the table returned (when one is returned with the key)
ReturnedKeyCells ==
    result.table.columns[CHOOSE i \in 1..Len(result.table.columns) :
                             result.table.columns[i].name = run_config.key_column].cells

\* the cell holds 5 digits, a period and 5 digits between whitespace
HoldsCode(cell) == ~cell.isna /\ TrimmedShape(cell.text, 5, 5)

\* the 11 characters of the code a cell holds, found by position
CodeWithin(cell) ==
    LET t == cell.text
        lead == CHOOSE i \in 0..Len(t) :
                    /\ \A k \in 1..i : t[k] \in WhitespaceChars
                    /\ i < Len(t)
                    /\ t[i + 1] \notin WhitespaceChars
    IN  [k \in 1..11 |-> t[lead + k]]

PaddedRows == {r \in 1..Len(SourceKeyCells) :
                  HoldsCode(SourceKeyCells[r]) /\ Len(SourceKeyCells[r].text) > 11}

\* rows whose stored key differs from the stored key of an earlier row only in
\* the whitespace around the code
WhitespaceTwins ==
    {r \in 1..Len(SourceKeyCells) :
        \E q \in 1..(r - 1) :
            /\ SourceKeyCells[q] # SourceKeyCells[r]
            /\ CodeWithin(SourceKeyCells[q]) = CodeWithin(SourceKeyCells[r])}

\* C27: key validation and duplicate detection see the trimmed key cells.  A
\* key cell holding a valid code between whitespace is never among the
\* validation errors, and in a returned table it is the code without the
\* whitespace; when all key cells hold valid codes and two of them differ only
\* in surrounding whitespace, error mode fails with DuplicateKeys and
\* keep-first mode returns a table without the later of the two rows.
C27_KeyStagesSeeTrimmedCells ==
    (Transformed /\ ReachesKeyStages /\ KeyProjected) =>
        /\ (result.raised /\ result.msg = ValidationFailed) =>
              \A k \in 1..Len(result.detail) :
                  RowOf(result.detail[k].row - 2) \notin PaddedRows
        /\ ~result.raised =>
              \A p \in 1..Len(result.table.index) :
                  RowOf(result.table.index[p]) \in PaddedRows =>
                      ReturnedKeyCells[p] =
                          Text(CodeWithin(SourceKeyCells[RowOf(result.table.index[p])]))
        /\ ((\A r \in 1..Len(SourceKeyCells) : HoldsCode(SourceKeyCells[r]))
            /\ WhitespaceTwins # {}) =>
              IF run_config.duplicate_handling = "error"
              THEN result.raised /\ result.msg = DuplicateKeys
              ELSE /\ ~result.raised
                   /\ \A r \in WhitespaceTwins :
                         \A p \in 1..Len(result.table.index) :
                             RowOf(result.table.index[p]) # r

\* a padded code next to another code came back trimmed
C27_Witness ==
    /\ Transformed
    /\ ReachesKeyStages
    /\ KeyProjected
    /\ SourceKeyCells = <<Text(<<" ">> \o CodeA \o <<" ", "\n">>), Text(CodeB)>>
    /\ ~result.raised
    /\ ReturnedKeyCells = <<Text(CodeA), Text(CodeB)>>

\* a code and the same code padded failed with DuplicateKeys in error mode
C27_WitnessError ==
    /\ Transformed
    /\ ReachesKeyStages
    /\ KeyProjected
    /\ SourceKeyCells = <<Text(CodeA), Text(<<" ">> \o CodeA \o <<" ", "\n">>)>>
    /\ run_config.duplicate_handling = "error"
    /\ result.raised
    /\ result.msg = DuplicateKeys

\* a code and the same code padded came back as the first row only in
\* keep-first mode
C27_WitnessKeepFirst ==
    /\ Transformed
    /\ ReachesKeyStages
    /\ KeyProjected
    /\ SourceKeyCells = <<Text(CodeA), Text(<<" ">> \o CodeA \o <<" ", "\n">>)>>
    /\ run_config.duplicate_handling = "keep-first"
    /\ ~result.raised
    /\ result.table.index = <<0>>
    /\ ReturnedKeyCells = <<Text(CodeA)>>

\* the call returned a table that has the key column
ReturnedWithKey ==
    /\ Transformed
    /\ ~result.raised
    /\ \E i \in 1..Len(result.table.columns) :
          result.table.columns[i].name = run_config.key_column

C28_WitnessRenamed ==
    /\ ReturnedWithKey
    /\ run_config.duplicate_handling = "error"
    /\ run_config.key_column = C
    /\ ReturnedKeyCells = <<Text(CodeB), Text(CodeA)>>

\* the call failed with ValidationFailed
FailedValidation == Transformed /\ result.raised /\ result.msg = ValidationFailed

\* the stored key cell is absent or holds whitespace only
BlankKey(cell) == cell.isna \/ AllWhitespace(cell.text)

\* C29: a ValidationFailed raised by transform_dataframe never carries the
\* reason CodeEmpty; the entry of an absent or whitespace-only key cell has the
\* value '' and the reason MissingPeriod; and the value of every entry is the
\* trimmed, case-converted text of the key cell of its row.
C29_NoCodeEmptyInsideTransform ==
    FailedValidation =>
        \A k \in 1..Len(result.detail) :
            LET entry == result.detail[k]
                stored == SourceKeyCells[RowOf(entry.row - 2)]
            IN  /\ entry.error # CodeEmpty
                /\ ~entry.value.isna
                /\ NoSurroundingWhitespace(entry.value.text)
                /\ entry.value = CleanedCell(stored)
                /\ BlankKey(stored) =>
                      /\ entry.value = Text(<<>>)
                      /\ entry.error = MissingPeriod

\* an absent key cell was reported with the value '' and MissingPeriod, and a
\* padded mixed-case cell with its trimmed upper-case text
C29_Witness ==
    /\ FailedValidation
    /\ run_config.case_transform = "upper"
    /\ SourceKeyCells = <<NA, Text(<<" ", "1", ".", "2", "\t">>), Text(<<"a", "B", ".", "c">>)>>
    /\ Len(result.detail) = 3
    /\ result.detail[1].value = Text(<<>>)
    /\ result.detail[1].error = MissingPeriod
    /\ result.detail[2].value = Text(<<"1", ".", "2">>)
    /\ result.detail[3].value = Text(<<"A", "B", ".", "C">>)

\* the profile and the transformation were both run on a non-empty table, the
\* profile for the key column, the transformation projecting it under its own
\* name
SameKeyProfiledAndTransformed ==
    /\ Transformed
    /\ ~EmptyTableGiven
    /\ ProfileKeyPresent
    /\ call_args.key_column = Some(run_config.key_column)
    /\ \E i \in 1..Len(Mappings) :
          /\ Mappings[i].source_name = run_config.key_column
          /\ Mappings[i].dest_name = run_config.key_column
    /\ ReachesKeyStages

ProfileErrorRows ==
    {call_result.validation_errors[1][k].row :
        k \in 1..Len(call_result.validation_errors[1])}

TransformErrorRows ==
    IF result.raised /\ result.msg = ValidationFailed
    THEN {result.detail[k].row : k \in 1..Len(result.detail)}
    ELSE {}

\* C30: for a non-empty table and a key column projected under its own name,
\* in every case mode, the row numbers in the profile's validation errors are
\* the row numbers carried by the transformation's ValidationFailed, and the
\* transformation raises no ValidationFailed exactly when the profile's list
\* is empty.
C30_ProfileAndTransformAgreeOnRows ==
    SameKeyProfiledAndTransformed =>
        /\ ProfileErrorRows = TransformErrorRows
        /\ ~(result.raised /\ result.msg = ValidationFailed)
              <=> call_result.validation_errors = Some(<<>>)

\* both reported rows 2 and 4 of a three-row table, the absent cell with
\* different reasons
C30_Witness ==
    /\ SameKeyProfiledAndTransformed
    /\ SourceKeyCells = <<NA, Text(CodeA), Text(<<"a", "B", ".", "c">>)>>
    /\ ProfileErrorRows = {2, 4}
    /\ TransformErrorRows = {2, 4}
    /\ call_result.validation_errors[1][1].error = CodeEmpty
    /\ result.detail[1].error = MissingPeriod

\* a table of valid keys: an empty list from the profile and no
\* ValidationFailed from the transformation
C30_WitnessAllValid ==
    /\ SameKeyProfiledAndTransformed
    /\ Len(SourceKeyCells) = 2
    /\ call_result.validation_errors = Some(<<>>)
    /\ ~result.raised

====
